---------------------------- MODULE Spec2Model ----------------------------
(***************************************************************************)
(* Kernel surrogate models of trex (src/trex/models/linear_model.py): the  *)
(* one-vs-rest wrappers SVM and KernelLogisticRegression and the binary     *)
(* estimators BinarySVM and BinaryKernelLogisticRegression they own.        *)
(*                                                                          *)
(* Numbers are integers: features, dual coefficients and intercepts are     *)
(* drawn from small integer ranges, so every kernel value and every         *)
(* decision value is computed exactly.  Arrays are sequences; Python's      *)
(* 0-based indices are kept as values (coef_indices_, labels used as        *)
(* indices) and translated where a sequence is read.                        *)
(***************************************************************************)
EXTENDS Integers, Sequences, FiniteSets, TLC

\* ------------------------------------------------------------------ bounds
\* Number of feature columns of every instance.
NFeat == 1
\* Feature values lie in 0..MaxVal.
MaxVal == 1
\* Number of training rows.
NTrain == 3
\* Dual coefficients lie in -MaxCoef..MaxCoef, the intercept in 0..MaxCoef.
MaxCoef == 1
\* Longest query batch handed to a binary estimator.
MaxBatch == 5
\* Longest query batch handed to a one-vs-rest wrapper.
MaxQuery == 2
\* Largest pred_size (rows per block).
MaxPredSize == 2
\* Class labels lie in 0..MaxLabel.
MaxLabel == 2

FeatVals == 0..MaxVal
CoefVals == (-MaxCoef)..MaxCoef
InterceptVals == 0..MaxCoef
Rows == [1..NFeat -> FeatVals]

\* ----------------------------------------------------------------- helpers
RECURSIVE SumSeq(_)
SumSeq(s) == IF s = <<>> THEN 0 ELSE Head(s) + SumSeq(Tail(s))

RECURSIVE Flatten(_)
Flatten(ss) == IF ss = <<>> THEN <<>> ELSE Head(ss) \o Flatten(Tail(ss))

\* Sequences over S of length lo..hi.
SeqsOf(S, lo, hi) == UNION {[1..n -> S] : n \in lo..hi}

\* Strictly increasing sequences of indices 0..n-1 (sklearn's support_).
IsIncreasing(s) == \A i \in 1..(Len(s) - 1) : s[i] < s[i + 1]

\* A Python result: a value, or the exception that was raised.
Ok(v) == [ok |-> TRUE, val |-> v]
Raise(e) == [ok |-> FALSE, val |-> e]

\* Python's s[i] on a list: 0-based, negative indices count from the end.
PyInRange(s, i) == i >= -Len(s) /\ i < Len(s)
PyAt(s, i) == IF i >= 0 THEN s[i + 1] ELSE s[Len(s) + i + 1]

\* X[i: j] of Python (0-based, end-exclusive, clipped to the length).
PySlice(X, i, j) == SubSeq(X, i + 1, IF j < Len(X) THEN j ELSE Len(X))

\* X[indices]: fancy indexing of rows by a sequence of 0-based indices.
Take(X, idx) == [k \in 1..Len(idx) |-> X[idx[k] + 1]]

\* ----------------------------------------------------------------- kernels
Dot(a, b) == SumSeq([f \in 1..Len(a) |-> a[f] * b[f]])

\* sklearn.metrics.pairwise.linear_kernel: the matrix of dot products.
linear_kernel(X1, X2) ==
    [i \in 1..Len(X1) |-> [j \in 1..Len(X2) |-> Dot(X1[i], X2[j])]]

\* polynomial_kernel with degree 2, gamma 1 and coef0 1: (<x,y> + 1)^2.
polynomial_kernel(X1, X2) ==
    [i \in 1..Len(X1) |->
        [j \in 1..Len(X2) |-> (Dot(X1[i], X2[j]) + 1) * (Dot(X1[i], X2[j]) + 1)]]

\* The callable SVM._create_kernel_callable binds for a kernel name.
kernel_func_(k, X1, X2) ==
    IF k = "linear" THEN linear_kernel(X1, X2) ELSE polynomial_kernel(X1, X2)

\* Row-wise X_sim * coef_ (numpy broadcast of a 1-d coef_ over the rows).
MulRow(sim, coef) == [j \in 1..Len(sim) |-> sim[j] * coef[j]]


\* ------------------------------------------------------------------- state
VARIABLES
    kind,          \* "SVM" or "KernelLogisticRegression": the wrapper class
    kernel,        \* SVM's kernel name (KernelLogisticRegression: "linear")
    pred_size,     \* constructor parameter: rows per prediction block
    fitted,        \* TRUE once fit has returned
    X_train_,      \* the training matrix bound by fit
    classes_,      \* ovr_.classes_: the distinct labels, sorted
    estimators_,   \* ovr_.estimators_: the fitted binary estimators
    op,            \* the last call made
    arg,           \* its arguments
    result,        \* what it returned or raised
    pc,            \* the position of the fit call in progress
    frame,         \* its arguments, locals and the external solver's outputs
    temp_dir,      \* the workspace directory temp_dir on disk
    noted,         \* a call the caller has noted down, with what it returned
    calls,         \* the fit calls of several binary estimators, one record each
    disk           \* the directories those calls name as temp_dir, by path

vars == <<kind, kernel, pred_size, fitted, X_train_, classes_, estimators_,
          op, arg, result, pc, frame, temp_dir, noted, calls, disk>>

\* What a fit call in progress owns, and the workspace; the fit calls of
\* several estimators and their directories.
fitvars == <<pc, frame, temp_dir, calls, disk>>

model == <<kind, kernel, pred_size, fitted, X_train_, classes_, estimators_>>

NoArg == [e |-> 0, X |-> <<>>, y_given |-> FALSE, y |-> <<>>]

\* No fit call in progress.
NoFrame == [X |-> <<>>, y |-> <<>>, n_check |-> 0, kernel_func |-> "",
            solver |-> <<>>, status |-> <<>>, pred |-> <<>>, steps |-> <<>>,
            found |-> <<>>]

\* os.path.exists(temp_dir) is False; a directory is its files by name,
\* a missing file the empty sequence.
NoDir == [model |-> <<>>, exists |-> FALSE, train_data |-> <<>>, prediction |-> <<>>]
EmptyDir == [NoDir EXCEPT !.exists = TRUE]

\* --------------------------------------------------------------- BinarySVM
\* One block of BinarySVM.decision_function: kernel against the support
\* rows, times coef_, summed per row, plus intercept_.
svm_block(est, blk) ==
    LET X_sim == kernel_func_(est.kernel, blk, Take(est.X_train_, est.coef_indices_))
    IN  [r \in 1..Len(blk) |-> SumSeq(MulRow(X_sim[r], est.coef_)) + est.intercept_]

\* svm_decisions with each block put in front of the earlier ones.
RECURSIVE svm_decisions_prepend(_, _, _)
svm_decisions_prepend(est, X, i) ==
    IF i >= Len(X) THEN <<>>
    ELSE svm_decisions_prepend(est, X, i + est.pred_size)
             \o <<svm_block(est, PySlice(X, i, i + est.pred_size))>>

\* for i in range(0, len(X), pred_size): decisions.append(block i)
RECURSIVE svm_decisions(_, _, _)
svm_decisions(est, X, i) ==
    IF i >= Len(X) THEN <<>>
    ELSE <<svm_block(est, PySlice(X, i, i + est.pred_size))>>
             \o svm_decisions(est, X, i + est.pred_size)

\* np.concatenate raises ValueError on an empty list of arrays.
np_concatenate(arrays) ==
    IF arrays = <<>> THEN Raise("ValueError") ELSE Ok(Flatten(arrays))

BinarySVM_decision_function(est, X) == np_concatenate(svm_decisions(est, X, 0))

\* BinarySVM_predict with a strict threshold.
BinarySVM_predict_strict(est, X) ==
    LET d == BinarySVM_decision_function(est, X)
    IN  IF ~d.ok THEN d
        ELSE Ok([r \in 1..Len(d.val) |-> IF d.val[r] > 0 THEN 1 ELSE 0])

BinarySVM_predict(est, X) ==
    LET d == BinarySVM_decision_function(est, X)
    IN  IF ~d.ok THEN d
        ELSE Ok([r \in 1..Len(d.val) |-> IF d.val[r] >= 0 THEN 1 ELSE 0])

\* scipy csr_matrix((data, indices, indptr), shape).
csr_matrix(data, indices, indptr, shape) ==
    [data |-> data, indices |-> indices, indptr |-> indptr, shape |-> shape]

\* BinarySVM_get_weight with the coefficients placed at columns 0..len-1.
BinarySVM_get_weight_arange(est) ==
    csr_matrix(est.coef_, [k \in 1..Len(est.coef_) |-> k - 1], <<0, Len(est.coef_)>>,
               <<1, Len(est.X_train_)>>)

BinarySVM_get_weight(est) ==
    csr_matrix(est.coef_, est.coef_indices_, <<0, Len(est.coef_)>>,
               <<1, Len(est.X_train_)>>)

\* SingleInstance that lets several rows through.
SingleInstance_first_row(est, x) == Len(x) >= 1 /\ Len(x[1]) = Len(est.X_train_[1])

\* x.shape == (1, X_train_.shape[1]).
SingleInstance(est, x) == Len(x) = 1 /\ Len(x[1]) = Len(est.X_train_[1])

\* BinarySVM_explain that stores the similarities, not their products with coef_.
BinarySVM_explain_sim(est, x) ==
    IF ~SingleInstance(est, x) THEN Raise("AssertionError")
    ELSE LET x_sim == kernel_func_(est.kernel, x, Take(est.X_train_, est.coef_indices_))
         IN  Ok(csr_matrix(x_sim[1], est.coef_indices_, <<0, Len(x_sim[1])>>,
                           <<1, Len(est.X_train_)>>))

BinarySVM_explain(est, x) ==
    IF ~SingleInstance(est, x) THEN Raise("AssertionError")
    ELSE LET x_sim == kernel_func_(est.kernel, x, Take(est.X_train_, est.coef_indices_))
             impact == MulRow(x_sim[1], est.coef_)
         IN  Ok(csr_matrix(impact, est.coef_indices_, <<0, Len(impact)>>,
                           <<1, Len(est.X_train_)>>))

\* ------------------------------------------ BinaryKernelLogisticRegression
\* 1 / (1 + exp(-z)) in thousandths, rounded; saturates as floats do.
_sigmoid(z) ==
    LET a == IF z < 0 THEN -z ELSE z
        t == CASE a = 0 -> 500 [] a = 1 -> 731 [] a = 2 -> 881 [] a = 3 -> 953
               [] a = 4 -> 982 [] a = 5 -> 993 [] a = 6 -> 998 [] a = 7 -> 999
               [] OTHER -> 1000
    IN  IF z < 0 THEN 1000 - t ELSE t

\* The pre-sigmoid score of each row of a block.
klr_scores(est, blk) ==
    LET X_sim == linear_kernel(blk, est.X_train_)
    IN  [r \in 1..Len(blk) |-> SumSeq(MulRow(X_sim[r], est.coef_))]

klr_block(est, blk) ==
    LET z == klr_scores(est, blk) IN [r \in 1..Len(blk) |-> _sigmoid(z[r])]

RECURSIVE klr_pos_probas(_, _, _)
klr_pos_probas(est, X, i) ==
    IF i >= Len(X) THEN <<>>
    ELSE <<klr_block(est, PySlice(X, i, i + est.pred_size))>>
             \o klr_pos_probas(est, X, i + est.pred_size)

\* proba = hstack([1 - pos_proba, pos_proba]); one row <<p0, p1>> per input row.
BinaryKLR_predict_proba(est, X) ==
    LET pos == np_concatenate(klr_pos_probas(est, X, 0))
    IN  IF ~pos.ok THEN pos
        ELSE Ok([r \in 1..Len(pos.val) |-> <<1000 - pos.val[r], pos.val[r]>>])

\* np.argmax over a row <<p0, p1>>: the first maximum, as a 0-based index.
np_argmax2(row) == IF row[2] > row[1] THEN 1 ELSE 0

BinaryKLR_predict(est, X) ==
    LET p == BinaryKLR_predict_proba(est, X)
    IN  IF ~p.ok THEN p ELSE Ok([r \in 1..Len(p.val) |-> np_argmax2(p.val[r])])

BinaryKLR_get_weight(est) == est.coef_

\* BinaryKLR_explain that stores the similarities, not their products with coef_.
BinaryKLR_explain_sim(est, x) ==
    IF ~SingleInstance(est, x) THEN Raise("AssertionError")
    ELSE Ok(<<linear_kernel(x, est.X_train_)[1]>>)

BinaryKLR_explain(est, x) ==
    IF ~SingleInstance(est, x) THEN Raise("AssertionError")
    ELSE LET x_sim == linear_kernel(x, est.X_train_)
         IN  Ok(<<MulRow(x_sim[1], est.coef_)>>)

\* --------------------------------------------------- sparse and dense stacks
\* scipy.sparse.vstack of csr blocks: data and indices concatenated, the row
\* pointers shifted; an empty list of blocks is a ValueError.
\* vstack_indptr that does not shift the row pointers of the later blocks.
RECURSIVE vstack_indptr_unshifted(_, _)
vstack_indptr_unshifted(blocks, offset) ==
    IF blocks = <<>> THEN <<>>
    ELSE LET b == Head(blocks)
         IN  [k \in 1..(Len(b.indptr) - 1) |-> b.indptr[k + 1]]
                 \o vstack_indptr_unshifted(Tail(blocks), offset)

RECURSIVE vstack_indptr(_, _)
vstack_indptr(blocks, offset) ==
    IF blocks = <<>> THEN <<>>
    ELSE LET b == Head(blocks)
         IN  [k \in 1..(Len(b.indptr) - 1) |-> offset + b.indptr[k + 1]]
                 \o vstack_indptr(Tail(blocks), offset + Len(b.data))

sps_vstack(blocks) ==
    IF blocks = <<>> THEN Raise("ValueError")
    ELSE Ok(csr_matrix(Flatten([k \in 1..Len(blocks) |-> blocks[k].data]),
                       Flatten([k \in 1..Len(blocks) |-> blocks[k].indices]),
                       <<0>> \o vstack_indptr(blocks, 0),
                       <<SumSeq([k \in 1..Len(blocks) |-> blocks[k].shape[1]]),
                         blocks[1].shape[2]>>))

\* np.vstack of equally long rows or of (1, n) matrices: the rows in order.
np_vstack(rows) == IF rows = <<>> THEN Raise("ValueError") ELSE Ok(rows)

\* csr.toarray(): entry (r, j) is the sum of the stored values of row r
\* whose column index is j (0-based columns).
RECURSIVE csr_entry(_, _, _, _)
csr_entry(m, k, hi, col) ==
    IF k > hi THEN 0
    ELSE (IF m.indices[k] = col THEN m.data[k] ELSE 0) + csr_entry(m, k + 1, hi, col)

toarray(m) ==
    [r \in 1..m.shape[1] |->
        [j \in 1..m.shape[2] |-> csr_entry(m, m.indptr[r] + 1, m.indptr[r + 1], j - 1)]]

\* where_zero that selects the rows of label 1.
where_one(y) == {i \in 0..(Len(y) - 1) : y[i + 1] = 1}

\* np.where(y == 0): the 0-based positions of y that hold label 0.
where_zero(y) == {i \in 0..(Len(y) - 1) : y[i + 1] = 0}

\* result[rows] *= -1 on a csr matrix: the stored values of those rows negated.
csr_negate_rows(m, rows) ==
    [m EXCEPT !.data =
        [k \in 1..Len(m.data) |->
            IF \E r \in rows : r < m.shape[1] /\ k > m.indptr[r + 1] /\ k <= m.indptr[r + 2]
            THEN -(m.data[k]) ELSE m.data[k]]]

\* result[rows] *= -1 on a dense matrix.
np_negate_rows(a, rows) ==
    [r \in 1..Len(a) |->
        IF (r - 1) \in rows THEN [j \in 1..Len(a[r]) |-> -(a[r][j])] ELSE a[r]]

\* ------------------------------------------------- one-vs-rest (sklearn)
\* OneVsRestClassifier scores an estimator by decision_function when it has
\* one (BinarySVM) and by predict_proba[:, 1] otherwise; the binary threshold
\* is 0 for the former and 0.5 for the latter.
ovr_score(est, X) ==
    IF kind = "SVM" THEN BinarySVM_decision_function(est, X)
    ELSE LET p == BinaryKLR_predict_proba(est, X)
         IN  IF ~p.ok THEN p ELSE Ok([r \in 1..Len(p.val) |-> p.val[r][2]])

ovr_thresh == IF kind = "SVM" THEN 0 ELSE 500

\* argmaxima[maxima == pred] = i over the estimators in order: the last maximum.
ArgMaxLast(scores) ==
    CHOOSE i \in 1..Len(scores) :
        /\ \A j \in 1..Len(scores) : scores[j] <= scores[i]
        /\ \A j \in (i + 1)..Len(scores) : scores[j] < scores[i]

\* SVM.predict / KernelLogisticRegression.predict: ovr_.predict(X).
ovr_predict(X) ==
    LET preds == [e \in 1..Len(estimators_) |-> ovr_score(estimators_[e], X)]
    IN  IF \E e \in 1..Len(estimators_) : ~preds[e].ok THEN Raise("ValueError")
        ELSE IF Len(estimators_) > 1
        THEN Ok([r \in 1..Len(X) |->
                    classes_[ArgMaxLast([e \in 1..Len(estimators_) |-> preds[e].val[r]])]])
        ELSE Ok([r \in 1..Len(X) |->
                    IF preds[1].val[r] > ovr_thresh THEN classes_[2] ELSE classes_[1]])

\* ------------------------------------------------------------ SVM wrapper
\* SVM_similarity that always uses the linear kernel.
SVM_similarity_linear(X, train_indices) ==
    linear_kernel(X, IF train_indices.given THEN Take(X_train_, train_indices.val)
                     ELSE X_train_)

SVM_similarity(X, train_indices) ==
    kernel_func_(kernel, X,
                 IF train_indices.given THEN Take(X_train_, train_indices.val)
                 ELSE X_train_)

SVM_get_weight ==
    sps_vstack([e \in 1..Len(estimators_) |-> BinarySVM_get_weight(estimators_[e])])

\* The list comprehension of explain: the per-row csr blocks, or the
\* IndexError of the first label that is no index of estimators_.
SVM_explain_rows(X, y) ==
    IF Len(estimators_) > 1
    THEN IF \E i \in 1..Len(X) : ~PyInRange(estimators_, y[i]) THEN Raise("IndexError")
         ELSE Ok([i \in 1..Len(X) |->
                    BinarySVM_explain(PyAt(estimators_, y[i]), <<X[i]>>).val])
    ELSE Ok([i \in 1..Len(X) |-> BinarySVM_explain(estimators_[1], <<X[i]>>).val])

SVM_explain(X, y_given, y_arg) ==
    LET yp == IF y_given THEN Ok(y_arg) ELSE ovr_predict(X)
    IN  IF ~yp.ok THEN yp
        ELSE IF Len(yp.val) # Len(X) THEN Raise("AssertionError")
        ELSE LET rows == SVM_explain_rows(X, yp.val)
             IN  IF ~rows.ok THEN rows
                 ELSE LET stacked == sps_vstack(rows.val)
                      IN  IF ~stacked.ok \/ Len(estimators_) > 1 THEN stacked
                          ELSE Ok(csr_negate_rows(stacked.val, where_zero(yp.val)))

\* ------------------------------------------- KernelLogisticRegression wrapper
KLR_similarity(X, train_indices) ==
    linear_kernel(X, IF train_indices.given THEN Take(X_train_, train_indices.val)
                     ELSE X_train_)

KLR_get_weight ==
    np_vstack([e \in 1..Len(estimators_) |-> BinaryKLR_get_weight(estimators_[e])])

KLR_explain_rows(X, y) ==
    IF Len(estimators_) > 1
    THEN IF \E i \in 1..Len(X) : ~PyInRange(estimators_, y[i]) THEN Raise("IndexError")
         ELSE Ok([i \in 1..Len(X) |->
                    BinaryKLR_explain(PyAt(estimators_, y[i]), <<X[i]>>).val[1]])
    ELSE Ok([i \in 1..Len(X) |-> BinaryKLR_explain(estimators_[1], <<X[i]>>).val[1]])

\* KLR_explain that negates the label-0 rows of a multiclass result too.
KLR_explain_negate_always(X, y_given, y_arg) ==
    LET yp == IF y_given THEN Ok(y_arg) ELSE ovr_predict(X)
    IN  IF ~yp.ok THEN yp
        ELSE IF Len(yp.val) # Len(X) THEN Raise("AssertionError")
        ELSE LET rows == KLR_explain_rows(X, yp.val)
             IN  IF ~rows.ok THEN rows
                 ELSE LET stacked == np_vstack(rows.val)
                      IN  IF ~stacked.ok THEN stacked
                          ELSE Ok(np_negate_rows(stacked.val, where_zero(yp.val)))

\* KLR_explain that asks for at least as many labels as rows.
KLR_explain_enough_labels(X, y_given, y_arg) ==
    LET yp == IF y_given THEN Ok(y_arg) ELSE ovr_predict(X)
    IN  IF ~yp.ok THEN yp
        ELSE IF Len(yp.val) < Len(X) THEN Raise("AssertionError")
        ELSE LET rows == KLR_explain_rows(X, yp.val)
             IN  IF ~rows.ok THEN rows
                 ELSE LET stacked == np_vstack(rows.val)
                      IN  IF ~stacked.ok \/ Len(estimators_) > 1 THEN stacked
                          ELSE Ok(np_negate_rows(stacked.val, where_zero(yp.val)))

KLR_explain(X, y_given, y_arg) ==
    LET yp == IF y_given THEN Ok(y_arg) ELSE ovr_predict(X)
    IN  IF ~yp.ok THEN yp
        ELSE IF Len(yp.val) # Len(X) THEN Raise("AssertionError")
        ELSE LET rows == KLR_explain_rows(X, yp.val)
             IN  IF ~rows.ok THEN rows
                 ELSE LET stacked == np_vstack(rows.val)
                      IN  IF ~stacked.ok \/ Len(estimators_) > 1 THEN stacked
                          ELSE Ok(np_negate_rows(stacked.val, where_zero(yp.val)))

\* -------------------------------------------------------------- fit inputs
TrainSets == [1..NTrain -> Rows]
QueryBatches(lo, hi) == SeqsOf(Rows, lo, hi)

\* What explain of a binary estimator may be handed: a batch of any length,
\* or one row with a feature more or a feature less than the training rows.
ExplainArgs ==
    QueryBatches(0, MaxQuery)
        \cup {<<r>> : r \in [1..(NFeat + 1) -> FeatVals] \cup [1..(NFeat - 1) -> FeatVals]}
IndexSeqs == {s \in SeqsOf(0..(NTrain - 1), 1, NTrain) : IsIncreasing(s)}
Labels == 0..MaxLabel

\* np.unique(y): the distinct labels in increasing order.
RECURSIVE SortedSeq(_)
SortedSeq(S) ==
    IF S = {} THEN <<>>
    ELSE LET m == CHOOSE x \in S : \A z \in S : x <= z
         IN  <<m>> \o SortedSeq(S \ {m})

np_unique(y) == SortedSeq({y[i] : i \in 1..Len(y)})

\* Label vectors with at least two classes, training rows grouped by class.
LabelVectors ==
    {y \in [1..NTrain -> Labels] :
        /\ \A i \in 1..(NTrain - 1) : y[i] <= y[i + 1]
        /\ Len(np_unique(y)) >= 2}

\* Label vectors of a binary estimator: labels 0 and 1, both present.
BinaryLabelVectors ==
    {y \in [1..NTrain -> {0, 1}] : Len(np_unique(y)) = 2}

\* OneVsRestClassifier's label binarizer: class c against the rest.
Binarize(y, c) == [i \in 1..Len(y) |-> IF y[i] = c THEN 1 ELSE 0]

\* What SVC leaves in dual_coef_[0], support_ and intercept_[0] for labels
\* yb in {0, 1}: support indices increasing, a coefficient y_i * alpha_i of
\* the sign of its row's class for each, the coefficients summing to zero.
SVCFits(yb) ==
    UNION {{f \in [coef_ : [1..Len(idx) -> CoefVals \ {0}], coef_indices_ : {idx},
                   intercept_ : InterceptVals] :
                /\ \A k \in 1..Len(idx) : (f.coef_[k] > 0) <=> (yb[idx[k] + 1] = 1)
                /\ SumSeq(f.coef_) = 0} : idx \in IndexSeqs}

\* What parse_model_file returns for the dual logistic-regression solver:
\* one nonzero alpha per training row, signed by the row's class.
KLRFits(yb) ==
    {f \in [coef_ : [1..Len(yb) -> CoefVals \ {0}]] :
        \A i \in 1..Len(yb) : (f.coef_[i] > 0) <=> (yb[i] = 1)}

\* SVC's own kernel for a kernel name, and its own decision values and labels.
SVC_kernel(k, a, b) ==
    IF k = "linear" THEN Dot(a, b) ELSE (Dot(a, b) + 1) * (Dot(a, b) + 1)

SVC_decision_function(k, Xtr, f, X) ==
    [r \in 1..Len(X) |->
        SumSeq([j \in 1..Len(f.coef_) |->
                  f.coef_[j] * SVC_kernel(k, X[r], Xtr[f.coef_indices_[j] + 1])])
            + f.intercept_]

SVC_predict(k, Xtr, f, X) ==
    LET d == SVC_decision_function(k, Xtr, f, X)
    IN  [r \in 1..Len(X) |-> IF d[r] >= 0 THEN 1 ELSE 0]

\* liblinear's predict -b 1 on the training file: the label of the sign of
\* w.x with w = sum_i alpha_i x_i, decoded to {0, 1}, and the probabilities.
liblinear_score(Xtr, f, x) ==
    SumSeq([j \in 1..Len(Xtr) |-> f.coef_[j] * Dot(x, Xtr[j])])

liblinear_pred_label(Xtr, f, X) ==
    [r \in 1..Len(X) |-> IF liblinear_score(Xtr, f, X[r]) > 0 THEN 1 ELSE 0]

liblinear_pred_proba(Xtr, f, X) ==
    [r \in 1..Len(X) |->
        <<1000 - _sigmoid(liblinear_score(Xtr, f, X[r])),
          _sigmoid(liblinear_score(Xtr, f, X[r]))>>]

\* Default n_check of BinarySVM.fit and BinaryKernelLogisticRegression.fit.
n_check == 10

\* One binary estimator for a two-label problem, one per label otherwise.
NEstimators(cls) == IF Len(cls) = 2 THEN 1 ELSE Len(cls)

\* The 0/1 labels the estimator of position e is fitted on: a two-label
\* problem is binarized against its larger label.
ovr_labels(y, cls, e) ==
    IF Len(cls) = 2 THEN Binarize(y, cls[2]) ELSE Binarize(y, cls[e])

\* ----------------------------------------------------------------- actions
\* The state after construction: hyperparameters only, nothing bound.
Init ==
    /\ kind \in {"SVM", "KernelLogisticRegression"}
    /\ kernel \in IF kind = "SVM" THEN {"linear", "poly"} ELSE {"linear"}
    /\ pred_size \in 1..MaxPredSize
    /\ fitted = FALSE
    /\ X_train_ = <<>>
    /\ classes_ = <<>>
    /\ estimators_ = <<>>
    /\ op = "init"
    /\ arg = NoArg
    /\ result = Ok(<<>>)
    /\ pc = "idle"
    /\ frame = NoFrame
    /\ temp_dir = NoDir
    /\ noted = <<>>
    /\ calls = <<>>
    /\ disk = <<>>

Bind(X, cls, ests) ==
    /\ X_train_' = X
    /\ classes_' = cls
    /\ estimators_' = ests
    /\ fitted' = TRUE
    /\ op' = "fit"
    /\ arg' = NoArg
    /\ result' = Ok(<<>>)
    /\ UNCHANGED <<kind, kernel, pred_size>>
    /\ UNCHANGED fitvars
    /\ UNCHANGED noted

\* The sanity check closing BinarySVM.fit: on the first n_check training
\* rows the dual form gives SVC's own labels and decision values.
BinarySVM_self_check(est) ==
    LET head == PySlice(est.X_train_, 0, n_check)
    IN  /\ SVC_predict(est.kernel, est.X_train_, est, head)
               = BinarySVM_predict(est, head).val
        /\ SVC_decision_function(est.kernel, est.X_train_, est, head)
               = BinarySVM_decision_function(est, head).val

\* The check closing BinaryKernelLogisticRegression.fit, against the
\* prediction file of liblinear.
BinaryKLR_self_check(est) ==
    LET head == PySlice(est.X_train_, 0, n_check)
    IN  /\ PySlice(liblinear_pred_label(est.X_train_, est, est.X_train_), 0, n_check)
               = BinaryKLR_predict(est, head).val
        /\ PySlice(liblinear_pred_proba(est.X_train_, est, est.X_train_), 0, n_check)
               = BinaryKLR_predict_proba(est, head).val

\* The BinarySVM object after fit: the constructor parameters the wrapper
\* hands over, the training matrix, and what was read off the SVC model.
BinarySVM_object(X, f) ==
    [kernel |-> kernel, pred_size |-> pred_size, X_train_ |-> X,
     coef_ |-> f.coef_, coef_indices_ |-> f.coef_indices_, intercept_ |-> f.intercept_]

\* The BinaryKernelLogisticRegression object after fit.
BinaryKLR_object(X, f) ==
    [pred_size |-> pred_size, X_train_ |-> X, coef_ |-> f.coef_]

\* BinarySVM.fit(X, y) on labels {0, 1}.
BinarySVMFit ==
    /\ ~fitted
    /\ kind = "SVM"
    /\ \E X \in TrainSets, y \in BinaryLabelVectors :
         \E f \in SVCFits(y) :
            /\ BinarySVM_self_check(BinarySVM_object(X, f))
            /\ Bind(X, <<0, 1>>, <<BinarySVM_object(X, f)>>)

\* BinaryKernelLogisticRegression.fit(X, y) on labels {0, 1}.
BinaryKLRFit ==
    /\ ~fitted
    /\ kind = "KernelLogisticRegression"
    /\ \E X \in TrainSets, y \in BinaryLabelVectors :
         \E f \in KLRFits(y) :
            /\ BinaryKLR_self_check(BinaryKLR_object(X, f))
            /\ Bind(X, np_unique(y), <<BinaryKLR_object(X, f)>>)

\* The solver a binary estimator of this wrapper trains with.
SolverFits(yb) == IF kind = "SVM" THEN SVCFits(yb) ELSE KLRFits(yb)

\* The solver results of a one-vs-rest fit: one per estimator, each for the
\* labels binarized against its class.
RECURSIVE OvrFits(_, _, _)
OvrFits(y, cls, e) ==
    IF e > NEstimators(cls) THEN {<<>>}
    ELSE {<<f>> \o rest : f \in SolverFits(ovr_labels(y, cls, e)),
                          rest \in OvrFits(y, cls, e + 1)}

\* SVM.fit(X, y): OneVsRestClassifier fits a BinarySVM per class.
SVMFit ==
    /\ ~fitted
    /\ kind = "SVM"
    /\ \E X \in TrainSets, y \in LabelVectors :
         \E fs \in OvrFits(y, np_unique(y), 1) :
            LET ests == [e \in 1..Len(fs) |-> BinarySVM_object(X, fs[e])]
            IN  /\ \A e \in 1..Len(ests) : BinarySVM_self_check(ests[e])
                /\ Bind(X, np_unique(y), ests)

\* KernelLogisticRegression.fit(X, y): a BinaryKernelLogisticRegression per class.
KLRFit ==
    /\ ~fitted
    /\ kind = "KernelLogisticRegression"
    /\ \E X \in TrainSets, y \in LabelVectors :
         \E fs \in OvrFits(y, np_unique(y), 1) :
            LET ests == [e \in 1..Len(fs) |-> BinaryKLR_object(X, fs[e])]
            IN  /\ \A e \in 1..Len(ests) : BinaryKLR_self_check(ests[e])
                /\ Bind(X, np_unique(y), ests)

\* A call returns to its caller, which may then make the next one.
Idle == op \in {"fit", "return"}

\* Call that leaves the training rows in reverse order.
Call_reordering(name, a, r) ==
    /\ op' = name
    /\ arg' = a
    /\ result' = r
    /\ X_train_' = [i \in 1..Len(X_train_) |-> X_train_[Len(X_train_) + 1 - i]]
    /\ UNCHANGED <<kind, kernel, pred_size, fitted, classes_, estimators_>>
    /\ UNCHANGED fitvars
    /\ UNCHANGED noted

Call(name, a, r) ==
    /\ op' = name
    /\ arg' = a
    /\ result' = r
    /\ UNCHANGED model
    /\ UNCHANGED fitvars
    /\ UNCHANGED noted

Return ==
    /\ fitted
    /\ ~Idle
    /\ op' = "return"
    /\ arg' = NoArg
    /\ result' = Ok(<<>>)
    /\ UNCHANGED model
    /\ UNCHANGED fitvars
    /\ UNCHANGED noted

BinaryCall(k) == fitted /\ Idle /\ kind = k

DecisionFunction ==
    /\ BinaryCall("SVM")
    /\ \E e \in 1..Len(estimators_), X \in QueryBatches(0, MaxBatch) :
         Call("BinarySVM.decision_function", [NoArg EXCEPT !.e = e, !.X = X],
              BinarySVM_decision_function(estimators_[e], X))

\* Predict with the strict threshold of BinarySVM_predict_strict.
PredictStrict ==
    /\ BinaryCall("SVM")
    /\ \E e \in 1..Len(estimators_), X \in QueryBatches(0, MaxBatch) :
         Call("BinarySVM.predict", [NoArg EXCEPT !.e = e, !.X = X],
              BinarySVM_predict_strict(estimators_[e], X))

Predict ==
    /\ BinaryCall("SVM")
    /\ \E e \in 1..Len(estimators_), X \in QueryBatches(0, MaxBatch) :
         Call("BinarySVM.predict", [NoArg EXCEPT !.e = e, !.X = X],
              BinarySVM_predict(estimators_[e], X))

GetWeight ==
    /\ BinaryCall("SVM")
    /\ \E e \in 1..Len(estimators_) :
         Call("BinarySVM.get_weight", [NoArg EXCEPT !.e = e],
              Ok(BinarySVM_get_weight(estimators_[e])))

Explain ==
    /\ BinaryCall("SVM")
    /\ \E e \in 1..Len(estimators_), X \in ExplainArgs :
         Call("BinarySVM.explain", [NoArg EXCEPT !.e = e, !.X = X],
              BinarySVM_explain(estimators_[e], X))

KLRPredictProba ==
    /\ BinaryCall("KernelLogisticRegression")
    /\ \E e \in 1..Len(estimators_), X \in QueryBatches(0, MaxBatch) :
         Call("BinaryKLR.predict_proba", [NoArg EXCEPT !.e = e, !.X = X],
              BinaryKLR_predict_proba(estimators_[e], X))

KLRPredict ==
    /\ BinaryCall("KernelLogisticRegression")
    /\ \E e \in 1..Len(estimators_), X \in QueryBatches(0, MaxBatch) :
         Call("BinaryKLR.predict", [NoArg EXCEPT !.e = e, !.X = X],
              BinaryKLR_predict(estimators_[e], X))

KLRGetWeight ==
    /\ BinaryCall("KernelLogisticRegression")
    /\ \E e \in 1..Len(estimators_) :
         Call("BinaryKLR.get_weight", [NoArg EXCEPT !.e = e],
              Ok(BinaryKLR_get_weight(estimators_[e])))

KLRExplain ==
    /\ BinaryCall("KernelLogisticRegression")
    /\ \E e \in 1..Len(estimators_), X \in ExplainArgs :
         Call("BinaryKLR.explain", [NoArg EXCEPT !.e = e, !.X = X],
              BinaryKLR_explain(estimators_[e], X))

\* ------------------------------------------------------- wrapper calls
WrapperCall(k) == fitted /\ Idle /\ kind = k

None == [given |-> FALSE, val |-> <<>>]
Given(v) == [given |-> TRUE, val |-> v]

\* The labels a caller may pass as y: those of the fitted classes.
ClassLabels == {classes_[c] : c \in 1..Len(classes_)}
YArgs == {None} \cup {Given(y) : y \in SeqsOf(ClassLabels, 0, MaxQuery)}
TrainIndexArgs == {None} \cup {Given(<<i>>) : i \in 0..(NTrain - 1)}

SVMPredict ==
    /\ WrapperCall("SVM")
    /\ \E X \in QueryBatches(0, MaxQuery) :
         Call("SVM.predict", [NoArg EXCEPT !.X = X], ovr_predict(X))

SVMSimilarity ==
    /\ WrapperCall("SVM")
    /\ \E X \in QueryBatches(1, 1), ti \in TrainIndexArgs :
         Call("SVM.similarity", [NoArg EXCEPT !.X = X, !.y_given = ti.given, !.y = ti.val],
              Ok(SVM_similarity(X, ti)))

SVMGetWeight ==
    /\ WrapperCall("SVM")
    /\ Call("SVM.get_weight", NoArg, SVM_get_weight)

SVMExplain ==
    /\ WrapperCall("SVM")
    /\ \E X \in QueryBatches(0, MaxQuery), y \in YArgs :
         Call("SVM.explain", [NoArg EXCEPT !.X = X, !.y_given = y.given, !.y = y.val],
              SVM_explain(X, y.given, y.val))

KLRWrapperPredict ==
    /\ WrapperCall("KernelLogisticRegression")
    /\ \E X \in QueryBatches(0, MaxQuery) :
         Call("KernelLogisticRegression.predict", [NoArg EXCEPT !.X = X], ovr_predict(X))

KLRSimilarity ==
    /\ WrapperCall("KernelLogisticRegression")
    /\ \E X \in QueryBatches(1, 1), ti \in TrainIndexArgs :
         Call("KernelLogisticRegression.similarity",
              [NoArg EXCEPT !.X = X, !.y_given = ti.given, !.y = ti.val],
              Ok(KLR_similarity(X, ti)))

KLRWrapperGetWeight ==
    /\ WrapperCall("KernelLogisticRegression")
    /\ Call("KernelLogisticRegression.get_weight", NoArg, KLR_get_weight)

KLRWrapperExplain ==
    /\ WrapperCall("KernelLogisticRegression")
    /\ \E X \in QueryBatches(0, MaxQuery), y \in YArgs :
         Call("KernelLogisticRegression.explain",
              [NoArg EXCEPT !.X = X, !.y_given = y.given, !.y = y.val],
              KLR_explain(X, y.given, y.val))

\* ----------------------------------------------------------- specifications
\* The binary estimators, fitted and queried directly.
Next ==
    \/ BinarySVMFit
    \/ BinaryKLRFit
    \/ Return
    \/ DecisionFunction
    \/ Predict
    \/ GetWeight
    \/ Explain
    \/ KLRPredictProba
    \/ KLRPredict
    \/ KLRGetWeight
    \/ KLRExplain

Spec == Init /\ [][Next]_vars

\* The one-vs-rest wrappers, with pred_size larger than any query batch (as
\* the defaults 500 and 1000 are).
InitOvr == Init /\ pred_size = MaxPredSize

NextOvr ==
    \/ SVMFit
    \/ KLRFit
    \/ Return
    \/ SVMPredict
    \/ SVMSimilarity
    \/ SVMGetWeight
    \/ SVMExplain
    \/ KLRWrapperPredict
    \/ KLRSimilarity
    \/ KLRWrapperGetWeight
    \/ KLRWrapperExplain

SpecOvr == InitOvr /\ [][NextOvr]_vars

\* ------------------------------------------------------------------ claims
\* The estimator a binary call was made on.
Callee == estimators_[arg.e]

IndexSet(est) == {est.coef_indices_[k] : k \in 1..Len(est.coef_indices_)}

\* C1: for a fitted BinarySVM and a single query row x, decision_function(x)
\* is the sum of the entries of explain(x) plus intercept_, and explain(x)
\* stores entries at the support indices coef_indices_ only.
C1_DecompositionSVM ==
    (op = "BinarySVM.explain" /\ result.ok) =>
        /\ result.val.indices = Callee.coef_indices_
        /\ BinarySVM_decision_function(Callee, arg.X).val
               = <<SumSeq(toarray(result.val)[1]) + Callee.intercept_>>

C1_Witness ==
    /\ op = "BinarySVM.explain"
    /\ result.ok
    /\ Callee.intercept_ # 0
    /\ SumSeq(toarray(result.val)[1]) # 0
    /\ Len(Callee.coef_indices_) < Len(Callee.X_train_)

\* C2: for a fitted BinaryKernelLogisticRegression and a single query row x,
\* explain(x) has one entry per training instance, its entries sum to the
\* pre-sigmoid score, and the sigmoid of that sum (no intercept added) is
\* predict_proba(x)[1].
C2_DecompositionKLR ==
    (op = "BinaryKLR.explain" /\ result.ok) =>
        /\ Len(result.val) = 1
        /\ Len(result.val[1]) = Len(Callee.X_train_)
        /\ SumSeq(result.val[1]) = klr_scores(Callee, arg.X)[1]
        /\ BinaryKLR_predict_proba(Callee, arg.X).val[1][2] = _sigmoid(SumSeq(result.val[1]))

C2_Witness ==
    /\ op = "BinaryKLR.explain"
    /\ result.ok
    /\ SumSeq(result.val[1]) # 0
    /\ \E j \in 1..Len(result.val[1]) : result.val[1][j] # Callee.coef_[j]

\* C7: BinarySVM.get_weight() is a vector over all n_train training indices
\* whose entry at coef_indices_[k] is coef_[k] and whose entry at every other
\* training index is zero.
C7_WeightVector ==
    (op = "BinarySVM.get_weight") =>
        /\ result.ok
        /\ result.val.shape = <<1, Len(Callee.X_train_)>>
        /\ \A k \in 1..Len(Callee.coef_) :
              toarray(result.val)[1][Callee.coef_indices_[k] + 1] = Callee.coef_[k]
        /\ \A j \in 0..(Len(Callee.X_train_) - 1) :
              j \notin IndexSet(Callee) => toarray(result.val)[1][j + 1] = 0

C7_Witness ==
    /\ op = "BinarySVM.get_weight"
    /\ Callee.coef_indices_[1] # 0
    /\ \E j \in 0..(Len(Callee.X_train_) - 1) : j \notin IndexSet(Callee)

\* C9: BinarySVM.predict(X) gives label 1 to a row exactly when the row's
\* decision value is >= 0 (so a decision value of 0 gives 1), and label 0
\* otherwise.
C9_PredictThreshold ==
    (op = "BinarySVM.predict" /\ result.ok) =>
        /\ Len(result.val) = Len(arg.X)
        /\ \A r \in 1..Len(arg.X) :
              LET d == BinarySVM_decision_function(Callee, <<arg.X[r]>>).val[1]
              IN  result.val[r] = IF d >= 0 THEN 1 ELSE 0

C9_Witness ==
    /\ op = "BinarySVM.predict"
    /\ result.ok
    /\ \E r \in 1..Len(arg.X) :
          /\ BinarySVM_decision_function(Callee, <<arg.X[r]>>).val[1] = 0
          /\ result.val[r] = 1
    /\ \E r \in 1..Len(arg.X) : result.val[r] = 0

\* The result of the blocked operation on row r alone.
RowAlone(r) ==
    IF op = "BinarySVM.decision_function"
    THEN BinarySVM_decision_function(Callee, <<arg.X[r]>>)
    ELSE BinaryKLR_predict_proba(Callee, <<arg.X[r]>>)

\* The blocked operation on the whole batch with block size q.
WithPredSize(q) ==
    IF op = "BinarySVM.decision_function"
    THEN BinarySVM_decision_function([Callee EXCEPT !.pred_size = q], arg.X)
    ELSE BinaryKLR_predict_proba([Callee EXCEPT !.pred_size = q], arg.X)

\* C10: for every pred_size >= 1 and every non-empty batch X,
\* decision_function (BinarySVM) and predict_proba
\* (BinaryKernelLogisticRegression) return one result per input row, in input
\* order, result i being the result for row i alone, whatever pred_size is.
C10_BlockingTransparent ==
    (op \in {"BinarySVM.decision_function", "BinaryKLR.predict_proba"} /\ Len(arg.X) >= 1) =>
        /\ result.ok
        /\ Len(result.val) = Len(arg.X)
        /\ \A r \in 1..Len(arg.X) : <<result.val[r]>> = RowAlone(r).val
        /\ \A q \in 1..(MaxBatch + 1) : WithPredSize(q) = result

C10_Witness ==
    /\ op = "BinarySVM.decision_function"
    /\ result.ok
    /\ Len(arg.X) > 2 * Callee.pred_size
    /\ Callee.pred_size > 1
    /\ result.val[1] # result.val[Len(arg.X)]

\* ------------------------------------------------ claims on the wrappers
ExplainOps == {"SVM.explain", "KernelLogisticRegression.explain"}
WeightOps == {"SVM.get_weight", "KernelLogisticRegression.get_weight"}

\* A wrapper result as a dense matrix: SVM returns csr, the other arrays.
Dense(m) == IF kind = "SVM" THEN toarray(m) ELSE m

\* explain of one binary estimator on one row, as a dense vector.
RawExplain(est, x) ==
    IF kind = "SVM" THEN toarray(BinarySVM_explain(est, <<x>>).val)[1]
    ELSE BinaryKLR_explain(est, <<x>>).val[1]

\* get_weight of one binary estimator, as a dense vector.
RawWeight(est) ==
    IF kind = "SVM" THEN toarray(BinarySVM_get_weight(est))[1]
    ELSE BinaryKLR_get_weight(est)

Negated(v) == [j \in 1..Len(v) |-> -(v[j])]

\* The labels explain works with: y when supplied, the predicted ones otherwise.
AssignedLabels == IF arg.y_given THEN arg.y ELSE ovr_predict(arg.X).val

\* An explain call that gets a non-empty batch and as many labels as rows.
WellFormedExplain ==
    /\ op \in ExplainOps
    /\ Len(arg.X) >= 1
    /\ arg.y_given => Len(arg.y) = Len(arg.X)

\* similarity(x) * get_weight() at every training index, for a two-class fit.
SimilarityTimesWeight ==
    LET sim == IF kind = "SVM" THEN SVM_similarity(arg.X, None)
               ELSE KLR_similarity(arg.X, None)
        w == Dense(IF kind = "SVM" THEN SVM_get_weight.val ELSE KLR_get_weight.val)
    IN  [j \in 1..Len(X_train_) |-> sim[1][j] * w[1][j]]

\* C3 as stated: on a two-class fit, explain(x) of a single query equals
\* similarity(x) times get_weight() elementwise, whatever label x is assigned.
C3_AsStated ==
    (WellFormedExplain /\ Len(classes_) = 2 /\ Len(arg.X) = 1) =>
        /\ result.ok
        /\ Dense(result.val)[1] = SimilarityTimesWeight

\* C3 amended: on a two-class fit, explain(x) of a single query equals
\* similarity(x) times get_weight() elementwise when x is assigned a label
\* other than 0, and the negation of that product when x is assigned label 0.
C3_WeightExplainConsistency ==
    (WellFormedExplain /\ Len(classes_) = 2 /\ Len(arg.X) = 1) =>
        /\ result.ok
        /\ Dense(result.val)[1] =
              IF AssignedLabels[1] = 0 THEN Negated(SimilarityTimesWeight)
              ELSE SimilarityTimesWeight

C3_Witness ==
    /\ WellFormedExplain
    /\ Len(classes_) = 2
    /\ Len(arg.X) = 1
    /\ ~arg.y_given
    /\ kernel = "poly"
    /\ AssignedLabels[1] = 0
    /\ Dense(result.val)[1] # SimilarityTimesWeight

\* The estimator that class label c owns: the one at c's position in classes_.
OwnerOf(c) == estimators_[CHOOSE k \in 1..Len(classes_) : classes_[k] = c]

ZeroBasedClasses == \A k \in 1..Len(classes_) : classes_[k] = k - 1

\* C4: on a one-vs-rest fit with three or more classes labelled 0..k-1, row i
\* of explain(X, y) is the unnegated explain of the binary estimator of class
\* y[i] (the predicted class when y is not supplied), and the result has one
\* row per query and one column per training instance.
C4_MulticlassDispatch ==
    (WellFormedExplain /\ Len(classes_) >= 3 /\ ZeroBasedClasses) =>
        /\ result.ok
        /\ Len(Dense(result.val)) = Len(arg.X)
        /\ \A i \in 1..Len(arg.X) :
              /\ Len(Dense(result.val)[i]) = Len(X_train_)
              /\ Dense(result.val)[i] = RawExplain(OwnerOf(AssignedLabels[i]), arg.X[i])

C4_Witness ==
    /\ WellFormedExplain
    /\ Len(classes_) >= 3
    /\ ~arg.y_given
    /\ Len(arg.X) = 2
    /\ AssignedLabels[1] = 0
    /\ AssignedLabels[2] = 2
    /\ Dense(result.val)[1] # RawExplain(estimators_[2], arg.X[1])
    /\ Dense(result.val)[2] # RawExplain(estimators_[1], arg.X[2])
    /\ Dense(result.val)[1] # Negated(Dense(result.val)[1])

\* C5: on a fit with labels {0, 1} (one binary estimator), row i of
\* explain(X, y) is the estimator's explain(X[i]) when y[i] is 1 and its
\* negation when y[i] is 0; the rows of label 1 are left as they are.
C5_BinarySign ==
    (WellFormedExplain /\ classes_ = <<0, 1>>) =>
        /\ result.ok
        /\ Len(estimators_) = 1
        /\ Len(Dense(result.val)) = Len(arg.X)
        /\ \A i \in 1..Len(arg.X) :
              Dense(result.val)[i] =
                 IF AssignedLabels[i] = 1 THEN RawExplain(estimators_[1], arg.X[i])
                 ELSE Negated(RawExplain(estimators_[1], arg.X[i]))

C5_Witness ==
    /\ WellFormedExplain
    /\ classes_ = <<0, 1>>
    /\ Len(arg.X) = 2
    /\ AssignedLabels = <<1, 0>>
    /\ Dense(result.val)[1] = RawExplain(estimators_[1], arg.X[1])
    /\ Dense(result.val)[2] # RawExplain(estimators_[1], arg.X[2])

\* C6 as stated: for any two or more distinct labels, explain takes for each
\* query the estimator trained for the query's assigned label, and on a
\* two-label fit negates exactly the rows assigned the smaller label.
C6_ArbitraryLabels ==
    (WellFormedExplain /\ \A i \in 1..Len(arg.X) : AssignedLabels[i] \in ClassLabels) =>
        /\ result.ok
        /\ \A i \in 1..Len(arg.X) :
              Dense(result.val)[i] =
                 IF Len(classes_) > 2
                 THEN RawExplain(OwnerOf(AssignedLabels[i]), arg.X[i])
                 ELSE IF AssignedLabels[i] = classes_[1]
                 THEN Negated(RawExplain(estimators_[1], arg.X[i]))
                 ELSE RawExplain(estimators_[1], arg.X[i])

\* C8: get_weight() of a wrapper stacks the binary estimators' weight
\* vectors in class order: row c is the c-th estimator's get_weight(); the
\* shape is (n_classes, n_train) for three or more classes, and there is
\* exactly one row for a two-class problem.
C8_WeightStack ==
    (op \in WeightOps) =>
        /\ result.ok
        /\ Len(Dense(result.val)) = Len(estimators_)
        /\ \A c \in 1..Len(estimators_) :
              /\ Dense(result.val)[c] = RawWeight(estimators_[c])
              /\ Len(Dense(result.val)[c]) = Len(X_train_)
        /\ Len(classes_) >= 3 => Len(Dense(result.val)) = Len(classes_)
        /\ Len(classes_) = 2 => Len(Dense(result.val)) = 1

C8_Witness ==
    /\ op = "SVM.get_weight"
    /\ Len(classes_) >= 3
    /\ Dense(result.val)[1] # Dense(result.val)[2]
    /\ Dense(result.val)[2] # Dense(result.val)[3]
    /\ Dense(result.val)[3][1] # 0

\* ------------------------------------------------------------ liblinear_util
\* A file on disk is the empty sequence when it does not exist, otherwise
\* <<f>> with f.lines its lines and f.gen the fit call that wrote it (0: it
\* was there before).  A line is its first word (key), then either a name
\* (word) or numbers (val); a line of numbers only has the key "data".
NoFile == <<>>
File(g, ls) == <<[gen |-> g, lines |-> ls]>>
Line(k, v) == [val |-> v, key |-> k, word |-> ""]
Named(k, w) == [val |-> <<>>, key |-> k, word |-> w]
Data(v) == Line("data", v)

\* float(x.strip()) of a whole line succeeds on a line holding one number.
IsFloatLine(l) == l.key = "data" /\ Len(l.val) = 1

\* np.array(alpha): a vector, or the 0-d array np.array(None).
ndarray(a) == [data |-> a, ndim |-> 1]
array_of_None == [data |-> <<>>, ndim |-> 0]

\* The locals of parse_model_file: unbound is the empty sequence.
NoLocals == [nr_feature |-> <<>>, nr_sample |-> <<>>, alpha |-> <<>>]

\* The loop of parse_model_file over lines i, i + 1, ... (1-based).
RECURSIVE parse_model_lines(_, _, _)
parse_model_lines(lines, i, st) ==
    IF i > Len(lines)
    THEN Ok(IF st.alpha = <<>> THEN array_of_None ELSE ndarray(st.alpha[1]))
    ELSE
      LET line == lines[i]
          k == line.key
      IN  CASE k = "solver_type" ->
                 IF line.word \in {"L2R_LR_DUAL", "L2R_L2LOSS_SVC_DUAL"}
                 THEN parse_model_lines(lines, i + 1, st)
                 ELSE Raise("AssertionError")
            [] k = "nr_class" ->
                 IF line.val = <<2>> THEN parse_model_lines(lines, i + 1, st)
                 ELSE Raise("AssertionError")
            [] k = "label" ->
                 IF Len(line.val) < 2 THEN Raise("IndexError")
                 ELSE IF line.val[1] = 1 /\ line.val[2] \in {0, -1}
                 THEN parse_model_lines(lines, i + 1, st)
                 ELSE Raise("AssertionError")
            [] k = "nr_feature" ->
                 parse_model_lines(lines, i + 1, [st EXCEPT !.nr_feature = line.val])
            [] k = "bias" -> parse_model_lines(lines, i + 1, st)
            [] k = "w" ->
                 IF st.nr_feature = <<>> THEN Raise("UnboundLocalError")
                 ELSE LET w == PySlice(lines, i, i - 1 + st.nr_feature[1])
                      IN  IF \E j \in 1..Len(w) : ~IsFloatLine(w[j])
                          THEN Raise("ValueError")
                          ELSE parse_model_lines(lines, i + 1, st)
            [] k = "nr_sample" ->
                 parse_model_lines(lines, i + 1, [st EXCEPT !.nr_sample = line.val])
            [] k = "alpha" ->
                 IF i + 1 > Len(lines) THEN Raise("IndexError")
                 ELSE IF lines[i + 1].key # "data" THEN Raise("ValueError")
                 ELSE IF st.nr_sample = <<>> THEN Raise("UnboundLocalError")
                 ELSE IF Len(lines[i + 1].val) # st.nr_sample[1] THEN Raise("AssertionError")
                 ELSE parse_model_lines(lines, i + 1,
                                        [st EXCEPT !.alpha = <<lines[i + 1].val>>])
            [] OTHER -> parse_model_lines(lines, i + 1, st)

\* parse_model_file(model_file): the alpha coefficients of a liblinear model.
parse_model_file(model_file) ==
    IF model_file = NoFile THEN Raise("AssertionError")
    ELSE parse_model_lines(model_file[1].lines, 1, NoLocals)

\* np.where(pred_label == -1, 0, 1)
minus_to_zeros_where(pred_label) ==
    [i \in 1..Len(pred_label) |-> IF pred_label[i] = -1 THEN 0 ELSE 1]

\* parse_lr_predictions(prediction_path, minus_to_zeros): the labels and the
\* rows <<proba_0, proba_1>> of a 'predict -b 1' output file.
parse_lr_predictions(prediction_file, minus_to_zeros) ==
    IF prediction_file = NoFile THEN Raise("AssertionError")
    ELSE LET lines == prediction_file[1].lines
         IN  IF lines = <<>> THEN Raise("IndexError")
             ELSE IF ~(lines[1].key = "labels" /\ lines[1].val \in {<<1, -1>>, <<1, 0>>})
             THEN Raise("AssertionError")
             ELSE LET rows == Tail(lines)
                  IN  IF \E r \in 1..Len(rows) : rows[r].key # "data"
                      THEN Raise("ValueError")
                      ELSE IF \E r \in 1..Len(rows) : Len(rows[r].val) < 3
                      THEN Raise("IndexError")
                      ELSE LET pred_label == [r \in 1..Len(rows) |-> rows[r].val[1]]
                               proba == [r \in 1..Len(rows) |->
                                            <<rows[r].val[3], rows[r].val[2]>>]
                           IN  Ok([pred_label |-> IF minus_to_zeros
                                                  THEN minus_to_zeros_where(pred_label)
                                                  ELSE pred_label,
                                   proba |-> proba])

\* parse_linear_svc_predictions(prediction_path, minus_to_zeros): the labels
\* of a 'predict -b 0' output file, one per line.
parse_linear_svc_predictions(prediction_file, minus_to_zeros) ==
    IF prediction_file = NoFile THEN Raise("AssertionError")
    ELSE LET lines == prediction_file[1].lines
         IN  IF \E r \in 1..Len(lines) : ~IsFloatLine(lines[r])
             THEN Raise("ValueError")
             ELSE LET pred_label == [r \in 1..Len(lines) |-> lines[r].val[1]]
                  IN  Ok(IF minus_to_zeros THEN minus_to_zeros_where(pred_label)
                         ELSE pred_label)

\* y_liblinear that hands the labels {0, 1} to the solver as they are.
y_liblinear_unencoded(y) == y

\* y_liblinear = np.where(y == 0, -1, 1) of BinaryKernelLogisticRegression.fit
y_liblinear(y) == [i \in 1..Len(y) |-> IF y[i] = 0 THEN -1 ELSE 1]

\* train_lr that does not look at the exit status.
train_lr_unchecked(status) == Ok(<<>>)

\* train_lr / train_linear_svc: os.system's status checked by an assert.
train_lr(status) == IF status = 0 THEN Ok(<<>>) ELSE Raise("AssertionError")

\* predict_lr / predict_linear_svc: likewise.
predict_lr(status) == IF status = 0 THEN Ok(<<>>) ELSE Raise("AssertionError")

\* ------------------------------------------------- files handed to the parsers
\* The model file 'train' writes for nf features and the coefficients a:
\* the header, the primal weights, then the dual coefficients.
model_lines(st, nc, lab, nf, ns, a) ==
    <<Named("solver_type", st), Line("nr_class", <<nc>>), Line("label", lab),
      Line("nr_feature", <<nf>>), Line("bias", <<-1>>), Line("w", <<>>)>>
        \o [j \in 1..nf |-> Data(<<0>>)]
        \o <<Line("nr_sample", <<ns>>), Line("alpha", <<>>), Data(a)>>

\* The lines with line k left out.
Omit(lines, k) == SubSeq(lines, 1, k - 1) \o SubSeq(lines, k + 1, Len(lines))

\* The lines with 'nr_sample' moved behind the alpha block.
LateNrSample(lines) ==
    LET k == CHOOSE j \in 1..Len(lines) : lines[j].key = "nr_sample"
    IN  Omit(lines, k) \o <<lines[k]>>

SolverTypes == {"L2R_LR_DUAL", "L2R_L2LOSS_SVC_DUAL", "L2R_LR"}
LabelLines == {<<1, -1>>, <<1, 0>>, <<-1, 1>>, <<0, 1>>}
AlphaBlocks == SeqsOf({-1, 1}, NTrain - 1, NTrain)

FullModelLines ==
    {model_lines(st, nc, lab, NFeat, ns, a) :
        st \in SolverTypes, nc \in {2, 3}, lab \in LabelLines,
        ns \in {NTrain - 1, NTrain}, a \in AlphaBlocks}

\* Model files as 'train' writes them, with any header value and any
\* alpha block, and the same with one line missing or nr_sample late.
ModelFiles ==
    {NoFile}
        \cup {File(0, ls) : ls \in FullModelLines}
        \cup {File(0, Omit(ls, k)) :
                 ls \in {l \in FullModelLines :
                            /\ l[1].word = "L2R_LR_DUAL"
                            /\ l[2].val = <<2>>
                            /\ l[3].val = <<1, -1>>},
                 k \in 1..(NFeat + 9)}
        \cup {File(0, LateNrSample(ls)) :
                 ls \in {l \in FullModelLines :
                            /\ l[1].word = "L2R_LR_DUAL"
                            /\ l[2].val = <<2>>
                            /\ l[3].val = <<1, -1>>}}

\* The thousandths 'predict -b 1' prints for the two labels of its header.
ProbaPairs == {<<731, 269>>, <<269, 731>>}

PredictionLines(header) ==
    {<<Line("labels", header)>> \o rows :
        rows \in SeqsOf({Data(<<l>> \o p) : l \in {header[1], header[2]}, p \in ProbaPairs},
                        0, MaxQuery)}

PredictionFiles ==
    {NoFile} \cup {File(0, ls) : ls \in UNION {PredictionLines(h) :
                                            h \in {<<1, -1>>, <<1, 0>>, <<-1, 1>>}}}

\* Output files of 'predict -b 0': one label per line, of either convention.
SVCPredictionFiles ==
    {NoFile} \cup {File(0, [r \in 1..Len(ls) |-> Data(<<ls[r]>>)]) :
                      ls \in SeqsOf({1, -1}, 0, MaxQuery) \cup SeqsOf({1, 0}, 0, MaxQuery)}

\* What 'predict -b 1' prints when it predicts every row its training label.
liblinear_echo(y_lib, p) ==
    File(0, <<Line("labels", <<1, -1>>)>>
              \o [r \in 1..Len(y_lib) |-> Data(<<y_lib[r]>> \o p[r])])

\* The arguments of a parser call: the file, the flag, and the labels the
\* file was produced from (when the caller encoded any).
ParseArg(y, f, b) == [y |-> y, minus_to_zeros |-> b, file |-> f]

\* A parser is called once, on a file that is already on disk.
ParserCall == op = "init"

ParseModelFile ==
    /\ ParserCall
    /\ \E f \in ModelFiles :
        Call("parse_model_file", ParseArg(<<>>, f, TRUE), parse_model_file(f))

ParseLRPredictions ==
    /\ ParserCall
    /\ \E f \in PredictionFiles, b \in BOOLEAN :
        Call("parse_lr_predictions", ParseArg(<<>>, f, b),
             parse_lr_predictions(f, b))

ParseLinearSVCPredictions ==
    /\ ParserCall
    /\ \E f \in SVCPredictionFiles, b \in BOOLEAN :
        Call("parse_linear_svc_predictions", ParseArg(<<>>, f, b),
             parse_linear_svc_predictions(f, b))

\* Lines 347 and 354 of BinaryKernelLogisticRegression.fit around a solver
\* that predicts every training label: encode, echo, decode.
EncodeDecode ==
    /\ ParserCall
    /\ \E y \in SeqsOf({0, 1}, 1, MaxQuery) :
        \E p \in [1..Len(y) -> ProbaPairs] :
            LET f == liblinear_echo(y_liblinear(y), p)
            IN  Call("encode_decode", ParseArg(y, f, TRUE),
                     parse_lr_predictions(f, TRUE))

\* The parsers of liblinear_util, applied to files.
InitParse == Init /\ kind = "KernelLogisticRegression" /\ pred_size = MaxPredSize

NextParse ==
    \/ ParseModelFile
    \/ ParseLRPredictions
    \/ ParseLinearSVCPredictions
    \/ EncodeDecode

SpecParse == InitParse /\ [][NextParse]_vars

\* ------------------------------------------------------- claims: the parsers
\* The lines of the file a parser was called on, and its header fields.
FileLines == arg.file[1].lines
HasLine(k) == \E j \in 1..Len(FileLines) : FileLines[j].key = k
TheLine(k) == FileLines[CHOOSE j \in 1..Len(FileLines) : FileLines[j].key = k]

\* The labels as the external predict printed them, row by row.
PrintedLabels ==
    IF op = "parse_linear_svc_predictions"
    THEN [r \in 1..Len(FileLines) |-> FileLines[r].val[1]]
    ELSE [r \in 1..(Len(FileLines) - 1) |-> FileLines[r + 1].val[1]]

ParsedLabels ==
    IF op = "parse_linear_svc_predictions" THEN result.val ELSE result.val.pred_label

\* C15: with the default minus_to_zeros, the prediction parsers return labels
\* in {0, 1} for both external conventions: a printed -1 (convention 1/-1) or
\* 0 (convention 1/0) comes back as 0 and a printed 1 as 1.
C15_BothConventions ==
    (/\ op \in {"parse_lr_predictions", "parse_linear_svc_predictions"}
     /\ arg.minus_to_zeros
     /\ result.ok) =>
        \A r \in 1..Len(PrintedLabels) :
            ParsedLabels[r] = (IF PrintedLabels[r] = 1 THEN 1 ELSE 0)

\* C16: a label y in {0, 1}, encoded for the solver (0 -> -1, 1 -> +1) and
\* decoded from the solver's echo by parse_lr_predictions, is y again.
C16_LabelRoundTrip ==
    (op = "encode_decode") =>
        /\ result.ok
        /\ result.val.pred_label = arg.y
        /\ \A r \in 1..Len(arg.y) : PrintedLabels[r] \in {-1, 1}

C16_Witness ==
    /\ op = "encode_decode"
    /\ result.ok
    /\ \E r \in 1..Len(arg.y) : arg.y[r] = 0 /\ PrintedLabels[r] = -1
    /\ \E r \in 1..Len(arg.y) : arg.y[r] = 1 /\ PrintedLabels[r] = 1

\* The number of coefficients on the line after 'alpha', if there is one.
AlphaCount ==
    LET k == CHOOSE j \in 1..Len(FileLines) : FileLines[j].key = "alpha"
    IN  IF k < Len(FileLines) /\ FileLines[k + 1].key = "data"
        THEN Len(FileLines[k + 1].val) ELSE 0

\* C17: parse_model_file raises whenever solver_type is not one of the two
\* dual solvers, nr_class is not 2, the label line is neither '1 0' nor
\* '1 -1', or the number of alpha coefficients differs from nr_sample; and
\* when it returns, the returned vector has exactly nr_sample entries.
C17_RejectsInvalid ==
    (op = "parse_model_file" /\ arg.file # NoFile) =>
        /\ (HasLine("solver_type")
              /\ TheLine("solver_type").word \notin {"L2R_LR_DUAL", "L2R_L2LOSS_SVC_DUAL"})
              => ~result.ok
        /\ (HasLine("nr_class") /\ TheLine("nr_class").val # <<2>>) => ~result.ok
        /\ (HasLine("label") /\ TheLine("label").val \notin {<<1, 0>>, <<1, -1>>})
              => ~result.ok
        /\ (HasLine("alpha") /\ HasLine("nr_sample")
              /\ AlphaCount # TheLine("nr_sample").val[1]) => ~result.ok
        /\ (result.ok /\ HasLine("nr_sample")) =>
              /\ result.val.ndim = 1
              /\ Len(result.val.data) = TheLine("nr_sample").val[1]

\* --------------------------------------------------- the workspace of a fit
\* shutil.rmtree(temp_dir) and os.makedirs(temp_dir).
rmtree(d) == NoDir
makedirs(d) == IF d.exists THEN Raise("FileExistsError") ELSE Ok(EmptyDir)

\* wipe_workspace that keeps an existing directory (makedirs with exist_ok).
wipe_workspace_exist_ok(d) == IF d.exists THEN Ok(d) ELSE makedirs(d)

\* if os.path.exists(temp_dir): shutil.rmtree(temp_dir); os.makedirs(temp_dir)
wipe_workspace(d) == makedirs(IF d.exists THEN rmtree(d) ELSE d)

\* create_data_file(X, y, data_file): one line per instance, the label and
\* the features (kept dense here), written by fit call g.
data_lines(X, y) == [r \in 1..Len(X) |-> Data(<<y[r]>> \o X[r])]
create_data_file(X, y, g) == File(g, data_lines(X, y))

\* What 'train' and 'predict' read back from a data file.
DataX(f) == [r \in 1..Len(f[1].lines) |-> Tail(f[1].lines[r].val)]
DataY(f) == [r \in 1..Len(f[1].lines) |-> IF Head(f[1].lines[r].val) = 1 THEN 1 ELSE 0]

\* The coefficient vectors that differ from a in exactly one place.
OneAltered(a) ==
    {b \in [1..Len(a) -> CoefVals] : Cardinality({i \in 1..Len(a) : b[i] # a[i]}) = 1}

\* The outcomes of 'train -s 7' on a data file: exit status 0 with the model
\* file as it reaches parse_model_file (the solver's coefficients, or those
\* with one of them altered), or a nonzero status with no model file or a
\* partly written one.
liblinear_train(data, g) ==
    UNION {{[status |-> 0, solver |-> <<f>>,
             model |-> File(g, model_lines("L2R_LR_DUAL", 2, <<1, -1>>, NFeat,
                                           Len(f.coef_), a))] :
               a \in {f.coef_} \cup OneAltered(f.coef_)} : f \in KLRFits(DataY(data))}
      \cup {[status |-> 1, solver |-> <<>>, model |-> m] :
               m \in {NoFile, File(g, <<Named("solver_type", "L2R_LR_DUAL")>>)}}

\* The output file of 'predict -b 1' for the solver's own model f on a data
\* file: per row the label (1 or -1) and the probabilities of 1 and of -1.
liblinear_predict(data, f, g) ==
    LET X == DataX(data)
        label == liblinear_pred_label(X, f, X)
        proba == liblinear_pred_proba(X, f, X)
    IN  File(g, <<Line("labels", <<1, -1>>)>>
                  \o [r \in 1..Len(X) |->
                        Data(<<IF label[r] = 1 THEN 1 ELSE -1, proba[r][2], proba[r][1]>>)])

\* The asserts closing BinaryKernelLogisticRegression.fit that compare the
\* labels only.
BinaryKLR_fit_asserts_labels_only(est, pred, X, n) ==
    LET own == BinaryKLR_predict(est, PySlice(X, 0, n))
    IN  own.ok /\ PySlice(pred.pred_label, 0, n) = own.val

\* The asserts closing BinaryKernelLogisticRegression.fit that compare every
\* training row, whatever n is.
BinaryKLR_fit_asserts_all_rows(est, pred, X, n) ==
    LET own_label == BinaryKLR_predict(est, X)
        own_proba == BinaryKLR_predict_proba(est, X)
    IN  /\ own_label.ok
        /\ pred.pred_label = own_label.val
        /\ pred.proba = own_proba.val

\* The two asserts closing BinaryKernelLogisticRegression.fit: the parsed
\* labels and probabilities of the first n rows against predict and
\* predict_proba of the same rows.
BinaryKLR_fit_asserts(est, pred, X, n) ==
    LET head == PySlice(X, 0, n)
        own_label == BinaryKLR_predict(est, head)
        own_proba == BinaryKLR_predict_proba(est, head)
    IN  /\ own_label.ok
        /\ PySlice(pred.pred_label, 0, n) = own_label.val
        /\ PySlice(pred.proba, 0, n) = own_proba.val

\* The two asserts closing BinarySVM.fit: SVC's labels and decision values
\* of the first n rows (SVC computes with the kernel named k) against
\* predict and decision_function of the same rows.
BinarySVM_fit_asserts(k, f, est, X, n) ==
    LET head == PySlice(X, 0, n)
        own_label == BinarySVM_predict(est, head)
        own_decision == BinarySVM_decision_function(est, head)
    IN  /\ own_label.ok
        /\ SVC_predict(k, X, f, head) = own_label.val
        /\ SVC_decision_function(k, X, f, head) = own_decision.val

\* ------------------------------------------------------- fit, step by step
\* The n_check a caller passes: the default, or the first row only.
NCheckArgs == {1, n_check}

\* The label vectors a binary estimator may be handed (one class included).
FitLabelVectors == [1..NTrain -> {0, 1}]

\* A workspace left by an earlier fit with the same temp_dir: its training
\* file, model and predictions, or the training file alone when that fit
\* stopped at 'train'.
X_earlier == [i \in 1..NTrain |-> [j \in 1..NFeat |-> MaxVal]]
y_earlier == [i \in 1..NTrain |-> IF i = 1 THEN 0 ELSE 1]
coef_earlier == [i \in 1..NTrain |-> IF i = 1 THEN -1 ELSE 1]

LeftBehind ==
    LET data == create_data_file(X_earlier, y_liblinear(y_earlier), 0)
    IN  [model |-> File(0, model_lines("L2R_LR_DUAL", 2, <<1, -1>>, NFeat, NTrain,
                                       coef_earlier)),
         exists |-> TRUE,
         train_data |-> data,
         prediction |-> liblinear_predict(data, [coef_ |-> coef_earlier], 0)]

Workspaces ==
    {NoDir, EmptyDir, LeftBehind,
     [LeftBehind EXCEPT !.model = NoFile, !.prediction = NoFile]}

\* The state after BinarySVM(kernel, kernel_func, pred_size) or
\* BinaryKernelLogisticRegression(pred_size, temp_dir), with temp_dir as it
\* is on disk.
InitFit ==
    /\ kind \in {"SVM", "KernelLogisticRegression"}
    /\ kernel \in IF kind = "SVM" THEN {"linear", "poly"} ELSE {"linear"}
    /\ pred_size \in 1..MaxPredSize
    /\ fitted = FALSE
    /\ X_train_ = <<>>
    /\ classes_ = <<>>
    /\ estimators_ = <<>>
    /\ op = "init"
    /\ arg = NoArg
    /\ result = Ok(<<>>)
    /\ pc = "idle"
    /\ frame \in {[NoFrame EXCEPT !.kernel_func = kf] :
                     kf \in IF kind = "SVM" THEN {"linear", "poly"} ELSE {"linear"}}
    /\ temp_dir \in IF kind = "SVM" THEN {NoDir} ELSE Workspaces
    /\ noted = <<>>
    /\ calls = <<>>
    /\ disk = <<>>

\* The step just made, added to the steps of the call.
Step(fr, name) == [fr EXCEPT !.steps = Append(@, name)]

\* The call goes on at position p.
Goto(p) == pc' = p /\ result' = Ok(<<>>) /\ UNCHANGED fitted

\* The call ends with exception e: fit returns nothing.
RaiseAt(e) == pc' = "raised" /\ result' = Raise(e) /\ UNCHANGED fitted

\* return self
ReturnSelf == pc' = "done" /\ result' = Ok(<<>>) /\ fitted' = TRUE

FitFrameVars == <<kind, kernel, pred_size, arg, noted, calls, disk>>

\* BinaryKernelLogisticRegression.fit(X, y, n_check), lines 332-334.
KLRFitEnter ==
    /\ kind = "KernelLogisticRegression" /\ pc = "idle" /\ op = "init"
    /\ \E X \in TrainSets, y \in FitLabelVectors, n \in NCheckArgs :
         /\ X_train_' = X
         /\ classes_' = np_unique(y)
         /\ frame' = Step([frame EXCEPT !.X = X, !.y = y, !.n_check = n,
                                        !.found = <<temp_dir>>], "fit")
         /\ IF Len(np_unique(y)) = 2 THEN Goto("wipe") ELSE RaiseAt("AssertionError")
    /\ op' = "fit"
    /\ UNCHANGED <<estimators_, temp_dir>>
    /\ UNCHANGED FitFrameVars

\* Lines 336-339: the workspace is removed and made anew.
KLRFitWipe ==
    /\ pc = "wipe"
    /\ LET d == wipe_workspace(temp_dir)
       IN  IF d.ok THEN temp_dir' = d.val /\ Goto("write")
           ELSE RaiseAt(d.val) /\ UNCHANGED temp_dir
    /\ frame' = Step(frame, "wipe")
    /\ UNCHANGED <<X_train_, classes_, estimators_, op>>
    /\ UNCHANGED FitFrameVars

\* Lines 341-348: the training file with the labels in {-1, 1}.
KLRFitWrite ==
    /\ pc = "write"
    /\ temp_dir' = [temp_dir EXCEPT
                       !.train_data = create_data_file(frame.X, y_liblinear(frame.y), 1)]
    /\ frame' = Step(frame, "create_data_file")
    /\ Goto("train")
    /\ UNCHANGED <<X_train_, classes_, estimators_, op>>
    /\ UNCHANGED FitFrameVars

\* Line 349: the external train, its status checked by train_lr.
KLRFitTrain ==
    /\ pc = "train"
    /\ \E out \in liblinear_train(temp_dir.train_data, 1) :
         /\ temp_dir' = [temp_dir EXCEPT !.model = out.model]
         /\ frame' = Step([frame EXCEPT !.solver = out.solver,
                                        !.status = Append(@, out.status)], "train")
         /\ LET r == train_lr(out.status)
            IN  IF r.ok THEN Goto("parse_model") ELSE RaiseAt(r.val)
    /\ UNCHANGED <<X_train_, classes_, estimators_, op>>
    /\ UNCHANGED FitFrameVars

\* Line 350: self.coef_ = parse_model_file(model_path).
KLRFitParseModel ==
    /\ pc = "parse_model"
    /\ LET r == parse_model_file(temp_dir.model)
       IN  IF r.ok
           THEN /\ estimators_' = <<BinaryKLR_object(X_train_, [coef_ |-> r.val.data])>>
                /\ Goto("predict")
           ELSE RaiseAt(r.val) /\ UNCHANGED estimators_
    /\ frame' = Step(frame, "parse_model_file")
    /\ UNCHANGED <<X_train_, classes_, temp_dir, op>>
    /\ UNCHANGED FitFrameVars

\* Line 353: the external predict on the training file, checked by predict_lr.
KLRFitPredict ==
    /\ pc = "predict"
    /\ \E status \in {0, 1} :
         /\ temp_dir' = [temp_dir EXCEPT !.prediction =
                            IF status = 0
                            THEN liblinear_predict(temp_dir.train_data, frame.solver[1], 1)
                            ELSE NoFile]
         /\ frame' = Step([frame EXCEPT !.status = Append(@, status)], "predict")
         /\ LET r == predict_lr(status)
            IN  IF r.ok THEN Goto("parse_prediction") ELSE RaiseAt(r.val)
    /\ UNCHANGED <<X_train_, classes_, estimators_, op>>
    /\ UNCHANGED FitFrameVars

\* Line 354: pred_label, pred_proba = parse of the prediction file.
KLRFitParsePrediction ==
    /\ pc = "parse_prediction"
    /\ LET r == parse_lr_predictions(temp_dir.prediction, TRUE)
       IN  IF r.ok
           THEN frame' = Step([frame EXCEPT !.pred = <<r.val>>], "parse_prediction_file")
                /\ Goto("check")
           ELSE frame' = Step(frame, "parse_prediction_file") /\ RaiseAt(r.val)
    /\ UNCHANGED <<X_train_, classes_, estimators_, temp_dir, op>>
    /\ UNCHANGED FitFrameVars

\* Lines 355-358: the two asserts, then return self.
KLRFitCheck ==
    /\ kind = "KernelLogisticRegression" /\ pc = "check"
    /\ IF BinaryKLR_fit_asserts(estimators_[1], frame.pred[1], frame.X, frame.n_check)
       THEN ReturnSelf ELSE RaiseAt("AssertionError")
    /\ frame' = Step(frame, "self_check")
    /\ UNCHANGED <<X_train_, classes_, estimators_, temp_dir, op>>
    /\ UNCHANGED FitFrameVars

\* BinarySVM.fit(X, y, n_check), lines 177-187: SVC is fitted (it refuses a
\* single class) and its dual form is stored.
SVMFitTrain ==
    /\ kind = "SVM" /\ pc = "idle" /\ op = "init"
    /\ \E X \in TrainSets, y \in FitLabelVectors, n \in NCheckArgs :
         /\ X_train_' = X
         /\ IF Len(np_unique(y)) < 2
            THEN /\ frame' = Step([frame EXCEPT !.X = X, !.y = y, !.n_check = n], "fit")
                 /\ RaiseAt("ValueError")
                 /\ UNCHANGED estimators_
            ELSE \E f \in SVCFits(y) :
                 /\ frame' = Step([frame EXCEPT !.X = X, !.y = y, !.n_check = n,
                                                !.solver = <<f>>], "fit")
                 /\ estimators_' = <<[BinarySVM_object(X, f) EXCEPT
                                         !.kernel = frame.kernel_func]>>
                 /\ Goto("check")
    /\ op' = "fit"
    /\ UNCHANGED <<classes_, temp_dir>>
    /\ UNCHANGED FitFrameVars

\* Lines 189-193: the two asserts, then return self.
SVMFitCheck ==
    /\ kind = "SVM" /\ pc = "check"
    /\ IF BinarySVM_fit_asserts(kernel, frame.solver[1], estimators_[1],
                                frame.X, frame.n_check)
       THEN ReturnSelf ELSE RaiseAt("AssertionError")
    /\ frame' = Step(frame, "self_check")
    /\ UNCHANGED <<X_train_, classes_, estimators_, temp_dir, op>>
    /\ UNCHANGED FitFrameVars

NextFit ==
    \/ KLRFitEnter
    \/ KLRFitWipe
    \/ KLRFitWrite
    \/ KLRFitTrain
    \/ KLRFitParseModel
    \/ KLRFitPredict
    \/ KLRFitParsePrediction
    \/ KLRFitCheck
    \/ SVMFitTrain
    \/ SVMFitCheck

SpecFit == InitFit /\ [][NextFit]_vars

\* ------------------------------------------------------------- claims: fit
LastStep == IF frame.steps = <<>> THEN "" ELSE frame.steps[Len(frame.steps)]
Did(name) == \E i \in 1..Len(frame.steps) : frame.steps[i] = name
Checked == LastStep = "self_check"

\* The rows the self-check looks at: the first n_check, or all if fewer.
NChecked == IF frame.n_check < Len(frame.X) THEN frame.n_check ELSE Len(frame.X)

\* Row r alone: the solver's label and score (decision value, or the pair
\* of probabilities), and those recomputed from the stored dual form.
SolverLabel(r) ==
    IF kind = "SVM" THEN SVC_predict(kernel, frame.X, frame.solver[1], <<frame.X[r]>>)[1]
    ELSE frame.pred[1].pred_label[r]

SolverScore(r) ==
    IF kind = "SVM"
    THEN <<SVC_decision_function(kernel, frame.X, frame.solver[1], <<frame.X[r]>>)[1]>>
    ELSE frame.pred[1].proba[r]

OwnLabel(r) ==
    IF kind = "SVM" THEN BinarySVM_predict(estimators_[1], <<frame.X[r]>>).val[1]
    ELSE BinaryKLR_predict(estimators_[1], <<frame.X[r]>>).val[1]

OwnScore(r) ==
    IF kind = "SVM" THEN <<BinarySVM_decision_function(estimators_[1], <<frame.X[r]>>).val[1]>>
    ELSE BinaryKLR_predict_proba(estimators_[1], <<frame.X[r]>>).val[1]

RowAgrees(r) == SolverLabel(r) = OwnLabel(r) /\ SolverScore(r) = OwnScore(r)

\* C11: fit of a binary estimator returns only if, on the first n_check
\* training rows, the labels recomputed from the stored dual form equal the
\* solver's and the recomputed decision values / probabilities agree with
\* the solver's; if one of those rows disagrees, fit raises and returns
\* nothing.
C11_SelfCheckGate ==
    /\ fitted => \A r \in 1..NChecked : RowAgrees(r)
    /\ (Checked /\ \E r \in 1..NChecked : ~RowAgrees(r)) =>
          pc = "raised" /\ ~fitted /\ ~result.ok

C11_Witness ==
    /\ Checked
    /\ pc = "raised"
    /\ kind = "KernelLogisticRegression"
    /\ \A r \in 1..NChecked : SolverLabel(r) = OwnLabel(r)
    /\ \E r \in 1..NChecked : SolverScore(r) # OwnScore(r)

\* The training indices (1-based) at which the parsed coefficients differ
\* from the ones the solver predicts with.
AlteredAt ==
    {i \in 1..Len(frame.X) : estimators_[1].coef_[i] # frame.solver[1].coef_[i]}

OneCoefAltered ==
    kind = "KernelLogisticRegression" /\ Checked /\ Cardinality(AlteredAt) = 1

\* C12 as stated: whenever one dual coefficient of the parsed model is
\* altered, at any training index, and the solver's predictions are as they
\* were, BinaryKernelLogisticRegression.fit raises.
C12_AsStated == OneCoefAltered => pc = "raised" /\ ~fitted

\* C12, amended: with one dual coefficient altered, fit raises exactly when
\* the recomputed label or probability of one of the first n_check training
\* rows no longer agrees with the solver's; when the altered row has a zero
\* kernel value with each of those rows, fit returns the estimator.
C12_CorruptionDetected ==
    OneCoefAltered =>
        /\ pc = "raised" <=> \E r \in 1..NChecked : ~RowAgrees(r)
        /\ pc # "raised" => fitted /\ result.ok
        /\ (\A r \in 1..NChecked, k \in AlteredAt : Dot(frame.X[r], frame.X[k]) = 0)
              => fitted

C12_Witness ==
    /\ OneCoefAltered
    /\ fitted
    /\ frame.n_check < Len(frame.X)
    /\ \E k \in AlteredAt, r \in 1..Len(frame.X) : Dot(frame.X[r], frame.X[k]) # 0

\* C13: a nonzero exit status of the external train makes fit raise there:
\* no model file is parsed, predict is not invoked and no estimator is
\* returned; a nonzero status of predict keeps the prediction file from
\* being parsed.
C13_ExternalFailureFatal ==
    /\ (Len(frame.status) >= 1 /\ frame.status[1] # 0) =>
          /\ pc = "raised" /\ ~result.ok /\ ~fitted
          /\ LastStep = "train"
          /\ ~Did("parse_model_file") /\ ~Did("predict")
          /\ estimators_ = <<>>
    /\ (Len(frame.status) >= 2 /\ frame.status[2] # 0) =>
          /\ pc = "raised" /\ ~result.ok /\ ~fitted
          /\ LastStep = "predict"
          /\ ~Did("parse_prediction_file")

C13_Witness ==
    /\ Len(frame.status) = 1
    /\ frame.status[1] # 0
    /\ temp_dir.model # NoFile
    /\ pc = "raised"

\* The files of the workspace.
WorkspaceFiles == {temp_dir.train_data, temp_dir.model, temp_dir.prediction}

\* The coefficients on the alpha line of a model file.
AlphaOf(f) ==
    f[1].lines[(CHOOSE j \in 1..Len(f[1].lines) : f[1].lines[j].key = "alpha") + 1].val

\* C14: every BinaryKernelLogisticRegression.fit removes the workspace if it
\* exists and makes it anew: when the training file has been written the
\* workspace holds no file of an earlier fit, and coef_ is read from the
\* model file this call's train wrote.
C14_FreshWorkspace ==
    (kind = "KernelLogisticRegression" /\ Did("create_data_file")) =>
        /\ temp_dir.exists
        /\ \A f \in WorkspaceFiles : f = NoFile \/ f[1].gen = 1
        /\ LastStep = "create_data_file" =>
              temp_dir.model = NoFile /\ temp_dir.prediction = NoFile
        /\ estimators_ # <<>> =>
              /\ temp_dir.model # NoFile
              /\ temp_dir.model[1].gen = 1
              /\ estimators_[1].coef_ = AlphaOf(temp_dir.model)

C14_Witness ==
    /\ kind = "KernelLogisticRegression"
    /\ fitted
    /\ frame.found[1].model # NoFile
    /\ estimators_[1].coef_ # AlphaOf(frame.found[1].model)

\* ----------------------------------------------------- claims: preconditions
\* C18: explain of a binary estimator takes a single instance: when x has
\* several rows, no row, or a row whose number of features is not that of
\* the training rows, explain raises and returns no contribution vector.
C18_SingleInstanceOnly ==
    (op \in {"BinarySVM.explain", "BinaryKLR.explain"}) =>
        ((\/ Len(arg.X) # 1
          \/ \E r \in 1..Len(arg.X) : Len(arg.X[r]) # Len(X_train_[1]))
            => ~result.ok /\ result.val = "AssertionError")

C18_Witness ==
    /\ op = "BinaryKLR.explain"
    /\ Len(arg.X) = 1
    /\ Len(arg.X[1]) = Len(X_train_[1]) + 1
    /\ ~result.ok

\* C19: explain(X, y) of a wrapper with y supplied raises the precondition
\* error, and nothing a binary estimator's explain could raise, whenever
\* len(y) differs from len(X).
C19_LabelCountPrecondition ==
    (/\ op \in {"SVM.explain", "KernelLogisticRegression.explain"}
     /\ arg.y_given
     /\ Len(arg.y) # Len(arg.X)) =>
        ~result.ok /\ result.val = "AssertionError"

C19_Witness ==
    /\ op = "KernelLogisticRegression.explain"
    /\ Len(estimators_) > 1
    /\ arg.y_given
    /\ Len(arg.y) > Len(arg.X)
    /\ Len(arg.X) > 0
    /\ ~result.ok

\* ------------------------------------------------------- repeated queries
\* What a caller keeps of a call: its name, its input, what it returned, and
\* the attributes the fitted estimator had when it returned.
Noted == [res |-> result, name |-> op, input |-> arg,
          X_train_ |-> X_train_, estimators_ |-> estimators_]

\* The calls a caller keeps: the fit, get_weight, and the queries about the
\* first training row.
Notable ==
    \/ op = "fit"
    \/ op \in {"BinarySVM.get_weight", "BinaryKLR.get_weight"}
    \/ arg = [NoArg EXCEPT !.e = arg.e, !.X = <<X_train_[1]>>]

\* A call returns, as in Return, to a caller that keeps it; a caller keeps
\* one call.
Note ==
    /\ fitted
    /\ noted = <<>>
    /\ Notable
    /\ noted' = <<Noted>>
    /\ op' = "return"
    /\ arg' = NoArg
    /\ result' = Ok(<<>>)
    /\ UNCHANGED model
    /\ UNCHANGED fitvars

InitRO == Init /\ pred_size = 1

\* A binary estimator, and for BinarySVM the SVM wrapper around it, queried
\* any number of times by a caller that keeps one earlier call.
NextRO ==
    \/ BinarySVMFit
    \/ BinaryKLRFit
    \/ Return
    \/ DecisionFunction
    \/ Predict
    \/ GetWeight
    \/ Explain
    \/ KLRPredictProba
    \/ KLRPredict
    \/ KLRGetWeight
    \/ KLRExplain
    \/ SVMExplain
    \/ SVMSimilarity
    \/ Note

SpecRO == InitRO /\ [][NextRO]_vars

BatchOps == {"BinarySVM.decision_function", "BinarySVM.predict",
             "BinaryKLR.predict_proba",
             "BinaryKLR.predict"}

\* C21: decision_function / predict of BinarySVM and predict_proba / predict
\* of BinaryKernelLogisticRegression, called with a batch of n >= 0 rows,
\* return n results without raising.
C21_AnyBatchSize ==
    op \in BatchOps => result.ok /\ Len(result.val) = Len(arg.X)

\* ------------------------------------------------ model files with a gap
RequiredLines == {"solver_type", "nr_class", "label", "nr_sample", "alpha"}

\* The model file parsed lacks a required line, or the coefficients that
\* follow the 'alpha' line.
Omission ==
    /\ arg.file # NoFile
    /\ \/ \E k \in RequiredLines : ~HasLine(k)
       \/ FileLines[Len(FileLines)].key = "alpha"

\* C22: when the alpha block, the nr_sample line or one of the header lines
\* solver_type, nr_class, label is missing from the model file,
\* parse_model_file raises and returns no coefficient array.
C22_OmissionFatal ==
    (op = "parse_model_file" /\ Omission) => ~result.ok

\* ------------------------------------------------------- after a fit call
\* BinaryKernelLogisticRegression.fit has returned, or has raised.
KLRFitOver == kind = "KernelLogisticRegression" /\ pc \in {"done", "raised"}

\* C23: once BinaryKernelLogisticRegression.fit has returned or raised, on
\* whatever exit path, the workspace directory does not exist any more.
C23_WorkspaceGone ==
    KLRFitOver => ~temp_dir.exists

\* A query on the object fit was called on, whether fit returned or raised
\* (an attribute fit did not get to bind is an AttributeError).
QueryAfterFit(name, X, r) ==
    /\ pc \in {"done", "raised"}
    /\ op = "fit"
    /\ op' = name
    /\ arg' = [NoArg EXCEPT !.e = 1, !.X = X]
    /\ result' = r
    /\ UNCHANGED <<kind, kernel, pred_size, fitted, X_train_, classes_, estimators_>>
    /\ UNCHANGED <<pc, frame, temp_dir, noted, calls, disk>>

SVMDecisionFunctionAfterFit ==
    /\ kind = "SVM"
    /\ \E X \in QueryBatches(1, 1) :
         QueryAfterFit("BinarySVM.decision_function", X,
                       IF estimators_ = <<>> THEN Raise("AttributeError")
                       ELSE BinarySVM_decision_function(estimators_[1], X))

KLRPredictProbaAfterFit ==
    /\ kind = "KernelLogisticRegression"
    /\ \E X \in QueryBatches(1, 1) :
         QueryAfterFit("BinaryKLR.predict_proba", X,
                       IF estimators_ = <<>> THEN Raise("AttributeError")
                       ELSE BinaryKLR_predict_proba(estimators_[1], X))

NextFitUse ==
    \/ NextFit
    \/ SVMDecisionFunctionAfterFit
    \/ KLRPredictProbaAfterFit

\* One fit call, then one query on the same object.
SpecFitUse == InitFit /\ [][NextFitUse]_vars

\* C24: when the self-check or an earlier step of fit fails, a later query
\* on the estimator does not return a result computed from the rejected
\* coefficients.
C24_FailedFitUnusable ==
    (pc = "raised" /\ op # "fit" /\ op # "init") => ~result.ok

\* ------------------------------------------------- fit, name by name
\* The functions the module liblinear_util defines.
liblinear_util ==
    {"create_data_file", "train_linear_svc", "train_lr", "predict_linear_svc",
     "predict_lr", "parse_model_file", "parse_linear_svc_predictions",
     "parse_lr_predictions"}

\* liblinear_util.<name>: the function, or AttributeError.
getattr(module, name) ==
    IF name \in module THEN Ok(name) ELSE Raise("AttributeError")

\* Line 349 as it is written: liblinear_util.train_model(...).
KLRFitTrainModel ==
    /\ pc = "train"
    /\ LET f == getattr(liblinear_util, "train_model")
       IN  IF f.ok
           THEN \E out \in liblinear_train(temp_dir.train_data, 1) :
                  /\ temp_dir' = [temp_dir EXCEPT !.model = out.model]
                  /\ frame' = Step([frame EXCEPT !.solver = out.solver,
                                                 !.status = Append(@, out.status)],
                                   "train_model")
                  /\ LET r == train_lr(out.status)
                     IN  IF r.ok THEN Goto("parse_model") ELSE RaiseAt(r.val)
           ELSE /\ frame' = Step(frame, "train_model")
                /\ RaiseAt(f.val)
                /\ UNCHANGED temp_dir
    /\ UNCHANGED <<X_train_, classes_, estimators_, op>>
    /\ UNCHANGED FitFrameVars

\* BinaryKernelLogisticRegression.fit with every adapter step under the
\* name fit gives it.
NextFitNamed ==
    \/ KLRFitEnter
    \/ KLRFitWipe
    \/ KLRFitWrite
    \/ KLRFitTrainModel

SpecFitNamed == InitFit /\ [][NextFitNamed]_vars

\* The steps of BinaryKernelLogisticRegression.fit, in the order of the claim.
Workflow ==
    <<"fit", "wipe", "create_data_file", "train_model", "parse_model_file",
      "predict", "parse_prediction_file", "self_check">>

\* C25: BinaryKernelLogisticRegression.fit makes its steps in the order
\* write, train, parse model, predict, parse predictions, self-check, each
\* at most once, and each adapter step is a function liblinear_util provides.
C25_AdapterWorkflow ==
    kind = "KernelLogisticRegression" =>
        /\ frame.steps = SubSeq(Workflow, 1, Len(frame.steps))
        /\ \A i \in 1..Len(frame.steps) :
             frame.steps[i] \in {"fit", "wipe", "self_check"} \cup liblinear_util
        /\ result.ok \/ result.val # "AttributeError"

\* ------------------------------------------- several fits and their temp_dir
\* The default temp_dir of BinaryKernelLogisticRegression, another directory
\* beside it, and one inside it.
DefaultDir == ".temp_klr"
Paths == {DefaultDir, ".temp_klr_2", ".temp_klr/sub"}

\* Directory a lies inside directory b.
Inside(a, b) == a = ".temp_klr/sub" /\ b = DefaultDir

\* shutil.rmtree(w) on the disk dk: w goes, with everything inside it.
disk_rmtree(dk, w) ==
    [q \in Paths |-> IF q = w \/ Inside(q, w) THEN rmtree(dk[q]) ELSE dk[q]]

\* os.makedirs(w) on the disk dk, w not existing: w is made, and the
\* directories on the way to it that are not there yet.
disk_makedirs(dk, w) ==
    [q \in Paths |-> IF q = w \/ (Inside(w, q) /\ ~dk[q].exists) THEN EmptyDir ELSE dk[q]]

\* A fit call of a BinaryKernelLogisticRegression with temp_dir = path, about
\* to wipe its workspace (lines 332-334 touch the object only), with the
\* files it has read and removed so far, by the call that wrote them.
NewCall(path, X, y) ==
    [X |-> X, result |-> Ok(<<>>), pc |-> "wipe", temp_dir |-> path, y |-> y,
     pred |-> <<>>, coef_ |-> <<>>, reads |-> <<>>, removed |-> {}]

\* The calls that wrote the files of directory d.
Writers(d) ==
    {f[1].gen : f \in {d.model, d.train_data, d.prediction} \ {NoFile}}

\* The calls that wrote the files in w and inside it.
WritersUnder(dk, w) == UNION {Writers(dk[q]) : q \in {q \in Paths : q = w \/ Inside(q, w)}}

\* temp_dir that ignores the constructor's argument.
workspace_default(p) == DefaultDir

\* self.temp_dir of call p.
workspace(p) == calls[p].temp_dir

\* The outcomes of 'train -s 7' on a data file when the model file reaches
\* parse_model_file as it was written.
liblinear_train_intact(data, g) ==
    {out \in liblinear_train(data, g) :
        out.status = 0 => parse_model_file(out.model).val.data = out.solver[1].coef_}

\* Call p goes on at position q, or ends with exception e.
CallGoto(c, q) == [c EXCEPT !.pc = q]
CallRaise(c, e) == [c EXCEPT !.pc = "raised", !.result = Raise(e)]
Read(c, files) == [c EXCEPT !.reads = @ \o [i \in 1..Len(files) |-> files[i][1].gen]]

Procs == 1..Len(calls)

\* OneVsRestClassifier without n_jobs, inside KernelLogisticRegression.fit,
\* fits the estimators one after another and stops at the first that raises,
\* and none runs once that fit is over; estimators fitted by threads of
\* their own wait for nobody.
Scheduled_parallel(p) == TRUE
Scheduled(p) ==
    CASE op = "KernelLogisticRegression.fit" ->
             IF p > 1 THEN calls[p - 1].pc = "done" ELSE TRUE
      [] op = "fit" -> FALSE
      [] OTHER -> TRUE

SharedFrame ==
    UNCHANGED <<kind, kernel, pred_size, fitted, X_train_, classes_, estimators_,
                op, arg, result, pc, frame, temp_dir, noted>>

\* Lines 336-339 of call p.
CallWipe ==
    \E p \in Procs :
        /\ Scheduled(p)
        /\ calls[p].pc = "wipe"
        /\ LET d == disk[workspace(p)]
               w == wipe_workspace(d)
           IN  IF w.ok
               THEN /\ disk' = disk_makedirs(IF d.exists THEN disk_rmtree(disk, workspace(p))
                                                        ELSE disk, workspace(p))
                    /\ calls' = [calls EXCEPT ![p] =
                                    CallGoto([@ EXCEPT !.removed = WritersUnder(disk, workspace(p))],
                                             "write")]
               ELSE /\ calls' = [calls EXCEPT ![p] = CallRaise(@, w.val)]
                    /\ UNCHANGED disk
        /\ SharedFrame

\* Lines 346-348 of call p.
CallWrite ==
    \E p \in Procs :
        /\ Scheduled(p)
        /\ calls[p].pc = "write"
        /\ LET d == disk[workspace(p)]
           IN  IF d.exists
               THEN /\ disk' = [disk EXCEPT ![workspace(p)].train_data =
                                   create_data_file(calls[p].X, y_liblinear(calls[p].y), p)]
                    /\ calls' = [calls EXCEPT ![p] = CallGoto(@, "train")]
               ELSE /\ calls' = [calls EXCEPT ![p] = CallRaise(@, "FileNotFoundError")]
                    /\ UNCHANGED disk
        /\ SharedFrame

\* Line 349 of call p: 'train' fails for want of its data file.
CallTrain ==
    \E p \in Procs :
        /\ Scheduled(p)
        /\ calls[p].pc = "train"
        /\ LET d == disk[workspace(p)]
           IN  IF d.train_data = NoFile
               THEN /\ calls' = [calls EXCEPT ![p] = CallRaise(@, train_lr(1).val)]
                    /\ UNCHANGED disk
               ELSE \E out \in liblinear_train_intact(d.train_data, p) :
                      /\ disk' = [disk EXCEPT ![workspace(p)].model = out.model]
                      /\ LET r == train_lr(out.status)
                             c == Read(calls[p], <<d.train_data>>)
                         IN  calls' = [calls EXCEPT ![p] =
                                          IF r.ok THEN CallGoto(c, "parse_model")
                                          ELSE CallRaise(c, r.val)]
        /\ SharedFrame

\* Line 350 of call p.
CallParseModel ==
    \E p \in Procs :
        /\ Scheduled(p)
        /\ calls[p].pc = "parse_model"
        /\ LET d == disk[workspace(p)]
               r == parse_model_file(d.model)
           IN  calls' = [calls EXCEPT ![p] =
                            IF r.ok
                            THEN CallGoto([Read(@, <<d.model>>) EXCEPT !.coef_ = <<r.val.data>>],
                                          "predict")
                            ELSE CallRaise(@, r.val)]
        /\ UNCHANGED disk
        /\ SharedFrame

\* The model file holds a coefficient for each row of the data file.
Predictable(d) ==
    /\ d.train_data # NoFile
    /\ d.model # NoFile
    /\ parse_model_file(d.model).ok
    /\ Len(parse_model_file(d.model).val.data) = Len(d.train_data[1].lines)

\* Line 353 of call p: 'predict' fails for want of a file it reads.
CallPredict ==
    \E p \in Procs :
        /\ Scheduled(p)
        /\ calls[p].pc = "predict"
        /\ LET d == disk[workspace(p)]
           IN  IF Predictable(d)
               THEN /\ disk' = [disk EXCEPT ![workspace(p)].prediction =
                                   liblinear_predict(d.train_data,
                                       [coef_ |-> parse_model_file(d.model).val.data], p)]
                    /\ calls' = [calls EXCEPT ![p] =
                                    CallGoto(Read(@, <<d.train_data, d.model>>),
                                             "parse_prediction")]
               ELSE /\ calls' = [calls EXCEPT ![p] = CallRaise(@, predict_lr(1).val)]
                    /\ UNCHANGED disk
        /\ SharedFrame

\* Line 354 of call p.
CallParsePrediction ==
    \E p \in Procs :
        /\ Scheduled(p)
        /\ calls[p].pc = "parse_prediction"
        /\ LET d == disk[workspace(p)]
               r == parse_lr_predictions(d.prediction, TRUE)
           IN  calls' = [calls EXCEPT ![p] =
                            IF r.ok
                            THEN CallGoto([Read(@, <<d.prediction>>) EXCEPT !.pred = <<r.val>>],
                                          "check")
                            ELSE CallRaise(@, r.val)]
        /\ UNCHANGED disk
        /\ SharedFrame

\* Lines 355-358 of call p.
CallCheck ==
    \E p \in Procs :
        /\ Scheduled(p)
        /\ calls[p].pc = "check"
        /\ LET c == calls[p]
               est == BinaryKLR_object(c.X, [coef_ |-> c.coef_[1]])
           IN  calls' = [calls EXCEPT ![p] =
                            IF BinaryKLR_fit_asserts(est, c.pred[1], c.X, n_check)
                            THEN CallGoto(@, "done")
                            ELSE CallRaise(@, "AssertionError")]
        /\ UNCHANGED disk
        /\ SharedFrame

\* The labels of the two calls: 0 and 1, training rows grouped by class.
SharedLabelVectors == LabelVectors \cap BinaryLabelVectors

\* Two estimators, each constructed with a temp_dir and fitted by a thread
\* or process of its own.
InitShared ==
    /\ kind = "KernelLogisticRegression"
    /\ kernel = "linear"
    /\ pred_size = MaxPredSize
    /\ fitted = FALSE
    /\ X_train_ = <<>>
    /\ classes_ = <<>>
    /\ estimators_ = <<>>
    /\ op = "init"
    /\ arg = NoArg
    /\ result = Ok(<<>>)
    /\ pc = "idle"
    /\ frame = NoFrame
    /\ temp_dir = NoDir
    /\ noted = <<>>
    /\ \E X \in TrainSets, y1 \in SharedLabelVectors, y2 \in SharedLabelVectors,
          path \in Paths :
         calls = <<NewCall(DefaultDir, X, y1), NewCall(path, X, y2)>>
    /\ disk = [path \in Paths |-> NoDir]

\* The steps of the calls in any order: each call in a thread of its own.
NextShared ==
    \/ CallWipe
    \/ CallWrite
    \/ CallTrain
    \/ CallParseModel
    \/ CallPredict
    \/ CallParsePrediction
    \/ CallCheck

SpecShared == InitShared /\ [][NextShared]_vars

\* ------------------------------------------- KernelLogisticRegression.fit
\* KernelLogisticRegression.fit(X, y) in progress, lines 257-260: one
\* BinaryKernelLogisticRegression per class (one in all for two classes),
\* every one with the default temp_dir, none fitted yet.
InitOvrFit ==
    /\ kind = "KernelLogisticRegression"
    /\ kernel = "linear"
    /\ pred_size = MaxPredSize
    /\ fitted = FALSE
    /\ X_train_ = <<>>
    /\ classes_ = <<>>
    /\ estimators_ = <<>>
    /\ op = "KernelLogisticRegression.fit"
    /\ \E X \in TrainSets, y \in LabelVectors :
         /\ arg = [NoArg EXCEPT !.X = X, !.y = y]
         /\ calls = [c \in 1..NEstimators(np_unique(y)) |->
                        NewCall(DefaultDir, X, ovr_labels(y, np_unique(y), c))]
    /\ result = Ok(<<>>)
    /\ pc = "idle"
    /\ frame = NoFrame
    /\ temp_dir = NoDir
    /\ noted = <<>>
    /\ disk = [path \in Paths |-> NoDir]

\* Lines 261-263: every estimator is fitted; their coef_ are stacked.
KLRFitStack ==
    /\ op = "KernelLogisticRegression.fit"
    /\ \A c \in Procs : calls[c].pc = "done"
    /\ Bind(arg.X, np_unique(arg.y),
            [c \in Procs |-> BinaryKLR_object(arg.X, [coef_ |-> calls[c].coef_[1]])])

\* Line 261: an estimator's fit has raised, and so does this fit.
KLRFitRaise ==
    /\ op = "KernelLogisticRegression.fit"
    /\ \E c \in Procs :
         /\ calls[c].pc = "raised"
         /\ result' = calls[c].result
    /\ op' = "fit"
    /\ arg' = NoArg
    /\ UNCHANGED model
    /\ UNCHANGED fitvars
    /\ UNCHANGED noted

NextOvrFit ==
    \/ NextShared
    \/ KLRFitStack
    \/ KLRFitRaise

SpecOvrFit == InitOvrFit /\ [][NextOvrFit]_vars

\* ------------------------------------------------- claims: shared workspaces
\* The calls whose files call p has read, run a program on, or removed.
Touched(p) == {calls[p].reads[i] : i \in 1..Len(calls[p].reads)} \cup calls[p].removed

\* Call p has removed a file of another call, or has read one.
Foreign(p) == Touched(p) \ {p} # {}

\* C26 as stated: two fits running at the same time with distinct temp_dir
\* paths never remove or read each other's files, in any interleaving of
\* their steps (and with one shared path some interleaving does).
C26_DistinctPathsIsolate ==
    (Len(calls) = 2 /\ calls[1].temp_dir # calls[2].temp_dir) =>
        \A p \in Procs : ~Foreign(p)

\* Neither directory is the other, or inside the other.
Disjoint(a, b) == a # b /\ ~Inside(a, b) /\ ~Inside(b, a)

\* C26, amended: two fits running at the same time with disjoint temp_dir
\* directories never remove or read each other's files, in any interleaving
\* of their steps; with one shared path there is an interleaving in which a
\* fit removes the other's files and a fit parses a model produced from the
\* other's data.
C26_DisjointDirsIsolate ==
    (Len(calls) = 2 /\ Disjoint(calls[1].temp_dir, calls[2].temp_dir)) =>
        \A p \in Procs : ~Foreign(p)

\* One path for both: q has removed p's files, and p, having trained on its
\* own data, has bound the coefficients of the model q trained on q's data.
C26_Witness ==
    /\ Len(calls) = 2
    /\ calls[1].temp_dir = calls[2].temp_dir
    /\ \E p \in Procs, q \in Procs :
         /\ p # q
         /\ p \in calls[q].removed
         /\ Len(calls[p].reads) >= 2
         /\ calls[p].reads[1] = p
         /\ calls[p].reads[2] = q
         /\ calls[p].coef_ # <<>>
         /\ Len(calls[q].reads) >= 1
         /\ calls[q].reads[1] = q
         /\ calls[p].y # calls[q].y

\* The coefficients call c has bound are of the signs of its own labels, as
\* those of a model trained on its own data file are.
OwnSigns(c) ==
    \A i \in 1..Len(calls[c].y) : (calls[c].coef_[1][i] > 0) <=> (calls[c].y[i] = 1)

\* C27: in KernelLogisticRegression.fit the binary estimators share the
\* default temp_dir and are fitted one after another: every file the fit of
\* class c reads was written by that fit, and row c of the stacked coef_ is
\* the coefficient vector of the model class c's own train wrote.
C27_OwnModelPerClass ==
    (Len(calls) > 0 /\ \A c \in Procs : calls[c].temp_dir = DefaultDir
                    /\ op \in {"KernelLogisticRegression.fit", "fit"}) =>
        \A c \in Procs :
            /\ \A i \in 1..Len(calls[c].reads) : calls[c].reads[i] = c
            /\ calls[c].coef_ # <<>> => OwnSigns(c)
            /\ fitted => estimators_[c].coef_ = calls[c].coef_[1]

\* Three classes fitted: three rows of coef_, each of its own class.
C27_Witness ==
    /\ fitted
    /\ Len(calls) = 3
    /\ Len(estimators_) = 3
    /\ \A c \in Procs : calls[c].temp_dir = DefaultDir /\ OwnSigns(c)
    /\ estimators_[1].coef_ # estimators_[2].coef_
    /\ 1 \in calls[2].removed

\* ------------------------------------------ the value get_weight returns
\* The attribute whose memory the returned value's data lives in:
\* BinarySVM.get_weight hands self.coef_ to csr_matrix((data, indices,
\* indptr)), which keeps the array it is given (copy=False);
\* BinaryKernelLogisticRegression.get_weight returns self.coef_.copy().
get_weight_base(name) == IF name = "BinarySVM.get_weight" THEN "coef_" ELSE ""

\* The caller writes v at position k of the data of the value get_weight
\* has returned (w.data[k] = v, or w[k] = v for an array), in place.
WriteWeight ==
    /\ fitted
    /\ op \in {"BinarySVM.get_weight", "BinaryKLR.get_weight"}
    /\ result.ok
    /\ LET data == IF op = "BinarySVM.get_weight" THEN result.val.data ELSE result.val
       IN  \E k \in 1..Len(data), v \in CoefVals :
             /\ result' = IF op = "BinarySVM.get_weight"
                          THEN Ok([result.val EXCEPT !.data[k] = v])
                          ELSE Ok([result.val EXCEPT ![k] = v])
             /\ estimators_' = IF get_weight_base(op) = "coef_"
                               THEN [estimators_ EXCEPT ![arg.e].coef_[k] = v]
                               ELSE estimators_
    /\ op' = "write"
    /\ UNCHANGED <<kind, kernel, pred_size, fitted, X_train_, classes_, arg>>
    /\ UNCHANGED fitvars
    /\ UNCHANGED noted

InitAlias == Init /\ pred_size = MaxPredSize

\* A binary estimator queried by a caller that writes into what get_weight
\* returned.
NextAlias ==
    \/ BinarySVMFit
    \/ BinaryKLRFit
    \/ Return
    \/ GetWeight
    \/ KLRGetWeight
    \/ WriteWeight
    \/ DecisionFunction
    \/ KLRPredictProba

SpecAlias == InitAlias /\ [][NextAlias]_vars

\* C28: writing in place into the value get_weight has returned changes no
\* estimator's coef_ (and so no later result), for BinarySVM and for
\* BinaryKernelLogisticRegression.
C28_WeightNotShared ==
    [][op' = "write" => estimators_' = estimators_]_vars

=============================================================================
